---- MODULE Spec2Model ----
(***************************************************************************)
(* Verification model of the Universal Agent Builder domain core:          *)
(*   - the Payment aggregate and its guarded status machine,               *)
(*   - the AP2 payment use cases, the payment capability gate and the      *)
(*     mock payment processor,                                             *)
(*   - the Agent aggregate, its mutators and AgentDomainService.createAgent.*)
(*                                                                         *)
(* JavaScript values are records carrying a `type` tag, so that the        *)
(* `typeof` / `instanceof` checks of the constructors can be evaluated.    *)
(* Strings whose contents are inspected (includes, trim, length) are       *)
(* sequences of one-character strings.                                     *)
(***************************************************************************)
EXTENDS Integers, Sequences, FiniteSets, TLC

VARIABLES
  clock,     \* the wall clock read by DateTime.now()
  pay,       \* the Payment aggregate the caller currently holds (or null)
  last,      \* the last Payment constructor / transition call and its outcome
  hist,      \* statuses the payment handle has gone through, oldest first
  origin,    \* how the payment of `pay` was built: "none", "constructor", "createPayment"
  repo,      \* InMemoryAgentRepository.agents : id -> agent | null
  adapter,   \* the AgentRepositoryPort implementation the use cases are constructed with
  uc,        \* the last payment use-case execution: request, result, processor calls
  agent,     \* the Agent aggregate a mutator is called on
  alast,     \* the last Agent constructor / factory / mutator call and its outcome
  host,      \* the JavaScript host the modules are loaded in: "node" or "browser"
  input,     \* the arguments a domain-service function is applied to
  svc        \* the last domain-service function call and the value it returned

vars == <<clock, pay, last, hist, origin, repo, adapter, uc, agent, alast, host, input, svc>>
payVars == <<pay, last, hist, origin>>
ucVars == <<repo, adapter, uc>>
agentVars == <<agent, alast, host>>
svcVars == <<input, svc>>

----------------------------------------------------------------------------
(* Bounds of the model.                                                    *)

MaxAmount == 1      \* amounts range over -1 .. MaxAmount
MaxClock == 1       \* the clock ticks at most this many times
MaxOps == 5         \* successful transitions recorded for one payment handle
MaxConfigs == 2     \* framework configs in one list handed to an Agent operation
MaxTag == 2         \* distinguishable parameter bags per framework type
MaxWords == 2       \* words in a prompt or goal handed to a domain-service function

----------------------------------------------------------------------------
(* JavaScript values.                                                      *)

Undefined == [type |-> "undefined"]
Null == [type |-> "null"]
NaN == [type |-> "NaN"]
Num(n) == [type |-> "number", v |-> n]
Str(s) == [type |-> "string", v |-> s]
\* a string whose characters the code inspects: a sequence of one-character strings
Text(cs) == [type |-> "text", v |-> cs]
Obj(tag) == [type |-> "object", v |-> tag]
Bool(b) == [type |-> "boolean", v |-> b]
Array(items) == [type |-> "array", items |-> items]

\* typeof x === 'number'   (NaN is a number)
IsNumber(x) == x.type \in {"number", "NaN"}
\* typeof x === 'string'
IsString(x) == x.type \in {"string", "text"}
\* !x
Falsy(x) ==
  \/ x.type \in {"undefined", "null", "NaN"}
  \/ (x.type = "number" /\ x.v = 0)
  \/ (x.type = "string" /\ x.v = "")
  \/ (x.type = "text" /\ x.v = <<>>)
  \/ (x.type = "boolean" /\ ~x.v)
\* x < 0 and x <= 0 on a JavaScript value: every comparison with NaN is false
Lt0(x) == x.type = "number" /\ x.v < 0
Le0(x) == x.type = "number" /\ x.v <= 0

\* String.prototype.toUpperCase on the identifiers the model uses
ToUpperCase(s) ==
  CASE s = "usd" -> "USD"
    [] s = "pending" -> "PENDING"
    [] s = "digital_wallet" -> "DIGITAL_WALLET"
    [] s = "mcp" -> "MCP"
    [] s = "draft" -> "DRAFT"
    [] OTHER -> s

\* the outcome of a call: a returned value, or a thrown Error
Ok(v) == [ok |-> TRUE, val |-> v]
Throw(msg) == [ok |-> FALSE, val |-> [type |-> "Error", message |-> msg]]

----------------------------------------------------------------------------
(* Payment value objects.                                                  *)

DateTime(t) == [type |-> "DateTime", t |-> t]

\* DateTime.now()
DateTimeNow(now) == DateTime(now)

\* new PaymentId(value)
PaymentIdNew(value) ==
  IF Falsy(value) \/ ~IsString(value)
    THEN Throw("Payment ID must be a non-empty string")
    ELSE Ok([type |-> "PaymentId", value |-> value.v])

\* new PaymentAmount(amount, currency = 'USD')
PaymentAmountNew(amount, currencyArg) ==
  LET currency == IF currencyArg = Undefined THEN Str("USD") ELSE currencyArg IN
  IF ~IsNumber(amount) \/ Lt0(amount)
    THEN Throw("Payment amount must be a non-negative number")
  ELSE IF Falsy(currency) \/ ~IsString(currency)
    THEN Throw("Currency must be a non-empty string")
  ELSE Ok([type |-> "PaymentAmount", amount |-> amount,
           currency |-> ToUpperCase(currency.v)])

PaymentMethodTypes ==
  {"CREDIT_CARD", "DEBIT_CARD", "BANK_TRANSFER", "DIGITAL_WALLET", "CRYPTOCURRENCY"}

\* new PaymentMethod(type, details)
PaymentMethodNew(mtype, details) ==
  IF Falsy(mtype) \/ ~IsString(mtype)
    THEN Throw("Payment method type must be a non-empty string")
  ELSE IF ToUpperCase(mtype.v) \notin PaymentMethodTypes
    THEN Throw("Invalid payment method type")
  ELSE Ok([type |-> "PaymentMethod", mtype |-> ToUpperCase(mtype.v),
           details |-> IF Falsy(details) THEN Obj("empty") ELSE details])

PaymentStatuses ==
  {"PENDING", "AUTHORIZED", "CAPTURED", "FAILED", "REFUNDED", "CANCELLED"}

\* new PaymentStatus(value)
PaymentStatusNew(value) ==
  IF Falsy(value) \/ ~IsString(value)
    THEN Throw("Payment status must be a non-empty string")
  ELSE IF ToUpperCase(value.v) \notin PaymentStatuses
    THEN Throw("Invalid payment status")
  ELSE Ok([type |-> "PaymentStatus", value |-> ToUpperCase(value.v)])

----------------------------------------------------------------------------
(* The Payment aggregate.                                                  *)

\* Payment._validateInvariants with the amount check weakened from <= 0 to < 0
PaymentValidateInvariants_allowZero(id, amount, method, status, createdAt, updatedAt) ==
  IF id.type # "PaymentId"
    THEN "Payment ID must be an instance of PaymentId value object"
  ELSE IF amount.type # "PaymentAmount" \/ Lt0(amount.amount)
    THEN "Payment amount must be a positive instance of PaymentAmount value object"
  ELSE IF method.type # "PaymentMethod"
    THEN "Payment method must be an instance of PaymentMethod value object"
  ELSE IF status.type # "PaymentStatus"
    THEN "Payment status must be an instance of PaymentStatus value object"
  ELSE IF createdAt.type # "DateTime"
    THEN "Created at must be an instance of DateTime value object"
  ELSE IF updatedAt.type # "DateTime"
    THEN "Updated at must be an instance of DateTime value object"
  ELSE ""

\* Payment._validateInvariants: the message of the first failed check, or ""
PaymentValidateInvariants(id, amount, method, status, createdAt, updatedAt) ==
  IF id.type # "PaymentId"
    THEN "Payment ID must be an instance of PaymentId value object"
  ELSE IF amount.type # "PaymentAmount" \/ Le0(amount.amount)
    THEN "Payment amount must be a positive instance of PaymentAmount value object"
  ELSE IF method.type # "PaymentMethod"
    THEN "Payment method must be an instance of PaymentMethod value object"
  ELSE IF status.type # "PaymentStatus"
    THEN "Payment status must be an instance of PaymentStatus value object"
  ELSE IF createdAt.type # "DateTime"
    THEN "Created at must be an instance of DateTime value object"
  ELSE IF updatedAt.type # "DateTime"
    THEN "Updated at must be an instance of DateTime value object"
  ELSE ""

\* new Payment(id, amount, method, description, recipient, status, createdAt, updatedAt)
PaymentNew(id, amount, method, description, recipient, status, createdAt, updatedAt) ==
  LET msg == PaymentValidateInvariants(id, amount, method, status, createdAt, updatedAt) IN
  IF msg # "" THEN Throw(msg)
  ELSE Ok([type |-> "Payment", id |-> id, amount |-> amount, method |-> method,
           description |-> description, recipient |-> recipient,
           status |-> status, createdAt |-> createdAt, updatedAt |-> updatedAt])

\* A method call on an aggregate: the receiver as the call leaves it, and the outcome.
Call(this, res) == [this |-> this, res |-> res]

\* the copy every transition builds: same fields, new status, updatedAt = DateTime.now()
PaymentWithStatus(this, value, now) ==
  PaymentNew(this.id, this.amount, this.method, this.description, this.recipient,
             PaymentStatusNew(Str(value)).val, this.createdAt, DateTimeNow(now))

\* Payment.authorize() without its precondition
authorize_unguarded(this, now) ==
  Call(this, PaymentNew(this.id, this.amount, this.method, this.description, this.recipient,
                        PaymentStatusNew(Str("AUTHORIZED")).val, this.createdAt,
                        DateTimeNow(now)))

\* Payment.authorize()
authorize(this, now) ==
  IF this.status.value # "PENDING"
    THEN Call(this, Throw("Cannot authorize payment: only pending payments can be authorized"))
    ELSE Call(this, PaymentWithStatus(this, "AUTHORIZED", now))

\* Payment.capture() assigning this._status and this._updatedAt instead of copying
capture_inPlace(this, now) ==
  IF this.status.value # "AUTHORIZED"
    THEN Call(this, Throw("Cannot capture payment: only authorized payments can be captured"))
    ELSE LET changed == [this EXCEPT !.status = PaymentStatusNew(Str("CAPTURED")).val,
                                     !.updatedAt = DateTimeNow(now)]
         IN  Call(changed, Ok(changed))

\* Payment.capture()
capture(this, now) ==
  IF this.status.value # "AUTHORIZED"
    THEN Call(this, Throw("Cannot capture payment: only authorized payments can be captured"))
    ELSE Call(this, PaymentWithStatus(this, "CAPTURED", now))

\* Payment.markAsFailed() guarding the wrong status
markAsFailed_wrongGuard(this, now) ==
  IF this.status.value = "AUTHORIZED"
    THEN Call(this, Throw("Cannot mark captured payment as failed"))
    ELSE Call(this, PaymentNew(this.id, this.amount, this.method, this.description,
                               this.recipient, PaymentStatusNew(Str("FAILED")).val,
                               this.createdAt, DateTimeNow(now)))

\* Payment.markAsFailed()
markAsFailed(this, now) ==
  IF this.status.value = "CAPTURED"
    THEN Call(this, Throw("Cannot mark captured payment as failed"))
    ELSE Call(this, PaymentWithStatus(this, "FAILED", now))

\* Payment.refund()
refund(this, now) ==
  IF this.status.value # "CAPTURED"
    THEN Call(this, Throw("Cannot refund payment: only captured payments can be refunded"))
    ELSE Call(this, PaymentWithStatus(this, "REFUNDED", now))

\* Payment.cancel()
cancel(this, now) ==
  IF this.status.value # "PENDING"
    THEN Call(this, Throw("Cannot cancel payment: only pending payments can be cancelled"))
    ELSE Call(this, PaymentWithStatus(this, "CANCELLED", now))

\* AP2DomainService.createPayment(amount, currency, methodType, methodDetails,
\* description, recipient); gid is the value _generateId() returns
createPayment(gid, amount, currency, methodType, methodDetails, description, recipient, now) ==
  LET paymentId == PaymentIdNew(Str(gid))
      paymentAmount == PaymentAmountNew(amount, currency)
      paymentMethod == PaymentMethodNew(methodType, methodDetails)
      status == PaymentStatusNew(Str("PENDING"))
      createdAt == DateTimeNow(now)
  IN  IF ~paymentId.ok THEN paymentId
      ELSE IF ~paymentAmount.ok THEN paymentAmount
      ELSE IF ~paymentMethod.ok THEN paymentMethod
      ELSE IF ~status.ok THEN status
      ELSE PaymentNew(paymentId.val, paymentAmount.val, paymentMethod.val,
                      description, recipient, status.val, createdAt, createdAt)

----------------------------------------------------------------------------
(* Inputs of the Payment operations.                                       *)

GeneratedIds == {"payment_1"}
RawAmounts == {Num(n) : n \in (-1)..MaxAmount} \cup {Undefined, Str("12")}
\* amounts of use-case requests: NaN is a number that is neither < 0 nor <= 0
RequestAmounts == RawAmounts \cup {NaN}
RawCurrencies == {Str("usd"), Undefined, Str("")}
RawMethodTypes == {Str("digital_wallet"), Str("CASH"), Undefined}
RawStatuses == {Str(s) : s \in PaymentStatuses} \cup {Str("pending"), Str("SETTLED")}
Descriptions == {Str("Test payment"), Undefined}

\* the values a constructor returns over a set of argument tuples
Built(results) == {r.val : r \in {x \in results : x.ok}}

PaymentIdObjects == Built({PaymentIdNew(Str(g)) : g \in GeneratedIds})
PaymentAmountObjects ==
  Built({PaymentAmountNew(a, c) : a \in RawAmounts, c \in RawCurrencies})
PaymentMethodObjects ==
  Built({PaymentMethodNew(m, Undefined) : m \in RawMethodTypes})
PaymentStatusObjects == Built({PaymentStatusNew(s) : s \in RawStatuses})

\* what a caller may pass to new Payment(...): value objects, or values that are not
IdArgs == PaymentIdObjects \cup {Str("payment_1")}
AmountArgs == PaymentAmountObjects \cup {Num(1)}
MethodArgs == PaymentMethodObjects \cup {Undefined}
StatusArgs == PaymentStatusObjects \cup {Str("PENDING")}
TimeArgs(now) == {DateTime(now), Undefined}

NoCall == [op |-> "none", recv |-> Null, this |-> Null, res |-> Ok(Null)]

TransitionOps == {"authorize", "capture", "markAsFailed", "refund", "cancel"}

----------------------------------------------------------------------------
(* Actions on the Payment aggregate.                                       *)

\* the wall clock advances
Tick ==
  /\ clock < MaxClock
  /\ clock' = clock + 1
  /\ UNCHANGED <<payVars, ucVars, agentVars, svcVars>>

\* a caller constructs a Payment directly and keeps what the constructor returns
NewPayment ==
  \E id \in IdArgs, amount \in AmountArgs, method \in MethodArgs,
     status \in StatusArgs, createdAt \in TimeArgs(clock), updatedAt \in TimeArgs(clock) :
    LET r == PaymentNew(id, amount, method, Str("Test payment"), Str("Merchant"),
                        status, createdAt, updatedAt) IN
    /\ last' = [op |-> "new", recv |-> Null, this |-> Null, res |-> r]
    /\ pay' = IF r.ok THEN r.val ELSE Null
    /\ hist' = IF r.ok THEN <<r.val.status.value>> ELSE <<>>
    /\ origin' = IF r.ok THEN "constructor" ELSE "none"
    /\ UNCHANGED <<clock, ucVars, agentVars, svcVars>>

\* a caller builds a Payment through AP2DomainService.createPayment
CreatePayment ==
  \E gid \in GeneratedIds, amount \in RawAmounts, currency \in RawCurrencies,
     methodType \in RawMethodTypes, description \in Descriptions :
    LET r == createPayment(gid, amount, currency, methodType, Undefined,
                           description, Str("Merchant"), clock) IN
    /\ last' = [op |-> "createPayment", recv |-> Null, this |-> Null, res |-> r]
    /\ pay' = IF r.ok THEN r.val ELSE Null
    /\ hist' = IF r.ok THEN <<r.val.status.value>> ELSE <<>>
    /\ origin' = IF r.ok THEN "createPayment" ELSE "none"
    /\ UNCHANGED <<clock, ucVars, agentVars, svcVars>>

\* the caller invokes a transition on the aggregate it holds; when the call returns
\* a new aggregate the caller replaces its handle with it
Transition(op, c) ==
  /\ pay # Null
  /\ Len(hist) <= MaxOps
  /\ last' = [op |-> op, recv |-> pay, this |-> c.this, res |-> c.res]
  /\ pay' = IF c.res.ok THEN c.res.val ELSE c.this
  /\ hist' = IF c.res.ok THEN Append(hist, c.res.val.status.value) ELSE hist
  /\ UNCHANGED <<clock, origin, ucVars, agentVars, svcVars>>

Authorize == pay # Null /\ Transition("authorize", authorize(pay, clock))
Capture == pay # Null /\ Transition("capture", capture(pay, clock))
MarkAsFailed == pay # Null /\ Transition("markAsFailed", markAsFailed(pay, clock))
Refund == pay # Null /\ Transition("refund", refund(pay, clock))
Cancel == pay # Null /\ Transition("cancel", cancel(pay, clock))

----------------------------------------------------------------------------
(* Agent value objects.                                                    *)

MaxNameLen == 100
MaxPromptLen == 10000

\* String.prototype.trim on a character sequence
RECURSIVE TrimStart(_)
TrimStart(cs) ==
  IF cs # <<>> /\ cs[1] = " " THEN TrimStart(Tail(cs)) ELSE cs
RECURSIVE TrimEnd(_)
TrimEnd(cs) ==
  IF cs # <<>> /\ cs[Len(cs)] = " " THEN TrimEnd(SubSeq(cs, 1, Len(cs) - 1)) ELSE cs
Trim(cs) == TrimEnd(TrimStart(cs))

\* new AgentId(value)
AgentIdNew(value) ==
  IF Falsy(value) \/ ~IsString(value)
    THEN Throw("Agent ID must be a non-empty string")
    ELSE Ok([type |-> "AgentId", value |-> value.v])

\* new AgentName(value)
AgentNameNew(value) ==
  IF Falsy(value) \/ ~IsString(value) \/ Len(Trim(value.v)) = 0
    THEN Throw("Agent name must be a non-empty string")
  ELSE IF Len(value.v) > MaxNameLen
    THEN Throw("Agent name must not exceed 100 characters")
  ELSE Ok([type |-> "AgentName", value |-> Trim(value.v)])

\* new AgentPrompt(value)
AgentPromptNew(value) ==
  IF Falsy(value) \/ ~IsString(value) \/ Len(Trim(value.v)) = 0
    THEN Throw("Agent prompt must be a non-empty string")
  ELSE IF Len(value.v) > MaxPromptLen
    THEN Throw("Agent prompt must not exceed 10000 characters")
  ELSE Ok([type |-> "AgentPrompt", value |-> Trim(value.v)])

AgentStatuses == {"DRAFT", "CONFIGURED", "GENERATED", "TESTING", "DEPLOYED", "ARCHIVED"}

\* new AgentStatus(value)
AgentStatusNew(value) ==
  IF Falsy(value) \/ ~IsString(value)
    THEN Throw("Agent status must be a non-empty string")
  ELSE IF ToUpperCase(value.v) \notin AgentStatuses
    THEN Throw("Invalid agent status")
  ELSE Ok([type |-> "AgentStatus", value |-> ToUpperCase(value.v)])

FrameworkTypes == {"A2A", "ADK", "MCP"}

\* a configuration parameter bag: `tag` tells two bags of one framework apart,
\* `tools` is the declared tool list (an array of strings) or undefined
ConfigData(tag, tools) == [type |-> "object", tag |-> tag, tools |-> tools]
EmptyConfigData == ConfigData(0, Undefined)

\* new FrameworkConfig(frameworkType, configData)
FrameworkConfigNew(frameworkType, configData) ==
  IF Falsy(frameworkType) \/ ~IsString(frameworkType)
    THEN Throw("Framework type must be a non-empty string")
  ELSE IF ToUpperCase(frameworkType.v) \notin FrameworkTypes
    THEN Throw("Invalid framework type")
  ELSE IF ~Falsy(configData) /\ configData.type # "object"
    THEN Throw("Config data must be an object or null/undefined")
  ELSE Ok([type |-> "FrameworkConfig", frameworkType |-> ToUpperCase(frameworkType.v),
           configData |-> IF Falsy(configData) THEN EmptyConfigData ELSE configData])

----------------------------------------------------------------------------
(* Agents as the payment services read them.                               *)

\* the fields the Agent constructor assigns
AgentRecord(id, name, prompt, frameworkConfigs, status, createdAt, updatedAt) ==
  [type |-> "Agent", id |-> id, name |-> name, prompt |-> prompt,
   frameworkConfigs |-> frameworkConfigs, status |-> status,
   createdAt |-> createdAt, updatedAt |-> updatedAt]

\* Agent.hasFramework(frameworkType), were it to ignore the type it is asked about
hasFramework_any(this, frameworkType) == Len(this.frameworkConfigs) > 0

\* Agent.hasFramework(frameworkType)
hasFramework(this, frameworkType) ==
  \E i \in DOMAIN this.frameworkConfigs :
    this.frameworkConfigs[i].frameworkType = frameworkType

\* Array.prototype.findIndex over the agent's configs: the first index (from 1)
\* whose config has the type, 0 when there is none (JavaScript's -1)
FindIndex(configs, frameworkType) ==
  LET hits == {i \in DOMAIN configs : configs[i].frameworkType = frameworkType} IN
  IF hits = {} THEN 0 ELSE CHOOSE i \in hits : \A j \in hits : i <= j

\* Agent.getFrameworkConfig(frameworkType)
getFrameworkConfig(this, frameworkType) ==
  LET i == FindIndex(this.frameworkConfigs, frameworkType) IN
  IF i = 0 THEN Null ELSE this.frameworkConfigs[i]

\* String.prototype.includes on character sequences
Includes(s, k) ==
  \E i \in 0..(Len(s) - Len(k)) : SubSeq(s, i + 1, i + Len(k)) = k

K_payment == <<"p","a","y","m","e","n","t">>
K_finance == <<"f","i","n","a","n","c","e">>
K_transaction == <<"t","r","a","n","s","a","c","t","i","o","n">>

\* hasPaymentCapabilities looking at the tools of every config, not only MCP's
hasPaymentCapabilities_anyConfig(a) ==
  Bool(\E c \in DOMAIN a.frameworkConfigs :
         LET tools == a.frameworkConfigs[c].configData.tools IN
         /\ tools # Undefined
         /\ \E i \in DOMAIN tools.items :
              \/ Includes(tools.items[i], K_payment)
              \/ Includes(tools.items[i], K_finance)
              \/ Includes(tools.items[i], K_transaction))

\* AP2DomainService.hasPaymentCapabilities(agent): the value of
\* hasMCP && hasPaymentTools, which is true, false or undefined
hasPaymentCapabilities(a) ==
  LET hasMCP == hasFramework(a, "MCP")
      cfg == getFrameworkConfig(a, "MCP")
      tools == IF cfg = Null THEN Undefined ELSE cfg.configData.tools
      hasPaymentTools ==
        IF tools = Undefined THEN Undefined
        ELSE Bool(\E i \in DOMAIN tools.items :
                    \/ Includes(tools.items[i], K_payment)
                    \/ Includes(tools.items[i], K_finance)
                    \/ Includes(tools.items[i], K_transaction))
  IN  IF ~hasMCP THEN Bool(FALSE) ELSE hasPaymentTools

----------------------------------------------------------------------------
(* Payment domain service and the mock processor.                          *)

\* value.trim().length === 0 on the strings the model uses
TrimIsEmpty(x) == x.v \in {"", "  "}

\* AP2DomainService.validatePayment(payment): the list of errors
validatePayment(payment) ==
  (IF Falsy(payment.amount) \/ Le0(payment.amount.amount)
     THEN <<"Payment amount must be greater than zero">> ELSE <<>>)
  \o (IF Falsy(payment.description) \/ TrimIsEmpty(payment.description)
     THEN <<"Payment description is required">> ELSE <<>>)
  \o (IF Falsy(payment.recipient) \/ TrimIsEmpty(payment.recipient)
     THEN <<"Payment recipient is required">> ELSE <<>>)
  \o (IF payment.status.value \notin PaymentStatuses
     THEN <<"Invalid payment status">> ELSE <<>>)

\* the value of a destructured field with a default
OrDefault(x, d) == IF x = Undefined THEN d ELSE x

\* AP2DomainService.createAgentPayment(agent, paymentDetails)
createAgentPayment(gid, a, paymentDetails, now) ==
  createPayment(gid,
                paymentDetails.amount,
                OrDefault(paymentDetails.currency, Str("USD")),
                OrDefault(paymentDetails.methodType, Str("DIGITAL_WALLET")),
                Obj("empty"),
                OrDefault(paymentDetails.description, Str("Payment from agent")),
                paymentDetails.recipient,
                now)

\* MockPaymentProcessorAdapter.processPayment(payment): the resolved value
processPayment(payment) ==
  IF Le0(payment.amount.amount)
    THEN [success |-> FALSE, error |-> "Payment amount must be greater than zero"]
    ELSE [success |-> TRUE, error |-> ""]

\* InMemoryAgentRepository.findById(id)
findById(agents, id) ==
  IF IsString(id) /\ id.v \in DOMAIN agents THEN agents[id.v] ELSE Null

----------------------------------------------------------------------------
(* Payment use cases.  An execution is the result object it resolves to,   *)
(* the outcome of its createPayment call and the list of payments it       *)
(* handed to paymentProcessor.processPayment.                              *)

NoResult == [success |-> FALSE, error |-> "not called"]

NotReached == Throw("not reached")

\* an execution that returns success:false before it creates a payment
Failure(errors) ==
  [result |-> [success |-> FALSE, errors |-> errors, payment |-> Null,
               processingResult |-> NoResult],
   created |-> NotReached, calls |-> <<>>]

\* the payment processors a use case is constructed with: the mock adapter, a
\* processor that resolves to the failure form { success: false, error } of the
\* port, and the abstract port, whose processPayment throws
PaymentProcessors ==
  {"MockPaymentProcessorAdapter", "DecliningPaymentProcessor", "PaymentProcessorPort"}

\* await this.paymentProcessor.processPayment(payment): the value it resolves to,
\* or the error it rejects with
ProcessorProcessPayment(processor, payment) ==
  CASE processor = "MockPaymentProcessorAdapter" -> Ok(processPayment(payment))
    [] processor = "DecliningPaymentProcessor"
         -> Ok([success |-> FALSE, error |-> "Payment declined"])
    [] processor = "PaymentProcessorPort"
         -> Throw("Method processPayment must be implemented")

\* the tail of the use cases that moves the payment on when the processor succeeds
ValidateAndProcess_authorizes(created, processor) ==
  IF ~created.ok
    THEN [Failure(<<created.val.message>>) EXCEPT !.created = created]
  ELSE LET payment == created.val
           validationErrors == validatePayment(payment)
           processed == ProcessorProcessPayment(processor, payment)
       IN  IF Len(validationErrors) > 0
             THEN [Failure(validationErrors) EXCEPT !.created = created]
           ELSE IF ~processed.ok
             THEN [Failure(<<processed.val.message>>)
                     EXCEPT !.created = created, !.calls = <<payment>>]
             ELSE [result |-> [success |-> TRUE, errors |-> <<>>,
                               payment |-> IF processed.val.success
                                             THEN [payment EXCEPT !.status.value = "AUTHORIZED"]
                                             ELSE payment,
                               processingResult |-> processed.val],
                   created |-> created, calls |-> <<payment>>]

\* the tail both use cases share: validate the payment, process it, report success
ValidateAndProcess(created, processor) ==
  IF ~created.ok                                              \* catch (error)
    THEN [Failure(<<created.val.message>>) EXCEPT !.created = created]
  ELSE LET payment == created.val
           validationErrors == validatePayment(payment)
           processed == ProcessorProcessPayment(processor, payment)
       IN  IF Len(validationErrors) > 0
             THEN [Failure(validationErrors) EXCEPT !.created = created]
           ELSE IF ~processed.ok                                  \* catch (error)
             THEN [Failure(<<processed.val.message>>)
                     EXCEPT !.created = created, !.calls = <<payment>>]
             ELSE [result |-> [success |-> TRUE, errors |-> <<>>, payment |-> payment,
                               processingResult |-> processed.val],
                   created |-> created, calls |-> <<payment>>]

\* CreatePaymentUseCase.execute(request)
CreatePaymentUseCaseExecute(request, agents, processor, gid, now) ==
  IF Falsy(request.amount) \/ Le0(request.amount)
    THEN Failure(<<"Amount is required and must be greater than zero">>)
  ELSE IF ~Falsy(request.agentId) /\ findById(agents, request.agentId) = Null
    THEN Failure(<<"Agent not found">>)
  ELSE IF ~Falsy(request.agentId)
          /\ Falsy(hasPaymentCapabilities(findById(agents, request.agentId)))
    THEN Failure(<<"Agent does not have payment processing capabilities">>)
  ELSE ValidateAndProcess(
         createPayment(gid, request.amount, request.currency, request.methodType,
                       Undefined, request.description, request.recipient, now),
         processor)

\* ProcessAgentPaymentUseCase.execute(request)
ProcessAgentPaymentUseCaseExecute(request, agents, processor, gid, now) ==
  IF Falsy(request.agentId)
    THEN Failure(<<"Agent ID is required">>)
  ELSE IF Falsy(request.paymentDetails)
    THEN Failure(<<"Payment details are required">>)
  ELSE IF findById(agents, request.agentId) = Null
    THEN Failure(<<"Agent not found">>)
  ELSE IF Falsy(hasPaymentCapabilities(findById(agents, request.agentId)))
    THEN Failure(<<"Agent does not have payment processing capabilities">>)
  ELSE ValidateAndProcess(
         createAgentPayment(gid, findById(agents, request.agentId),
                            request.paymentDetails, now),
         processor)

----------------------------------------------------------------------------
(* The Agent aggregate.                                                    *)

\* Agent._validateInvariants(id, name, prompt, frameworkConfigs): the message of the
\* error it throws, or "".  The method takes four parameters; `status`, `createdAt`
\* and `updatedAt` in its last three checks are free identifiers, resolved in the
\* global scope of the host: in Node `status` is not defined (ReferenceError), in a
\* browser it is window.status, a string, which is not an AgentStatus.
AgentValidateInvariants(id, name, prompt, frameworkConfigs, h) ==
  IF id.type # "AgentId"
    THEN "Agent ID must be an instance of AgentId value object"
  ELSE IF name.type # "AgentName"
    THEN "Agent name must be an instance of AgentName value object"
  ELSE IF prompt.type # "AgentPrompt"
    THEN "Agent prompt must be an instance of AgentPrompt value object"
  ELSE IF \E i \in DOMAIN frameworkConfigs : frameworkConfigs[i].type # "FrameworkConfig"
    THEN "All framework configs must be instances of FrameworkConfig value object"
  ELSE IF h = "node"
    THEN "ReferenceError: status is not defined"
  ELSE "Agent status must be an instance of AgentStatus value object"

\* new Agent(id, name, prompt, frameworkConfigs, status, createdAt, updatedAt)
AgentNew(id, name, prompt, frameworkConfigs, status, createdAt, updatedAt, h) ==
  LET msg == AgentValidateInvariants(id, name, prompt, frameworkConfigs, h) IN
  IF msg # "" THEN Throw(msg)
  ELSE Ok(AgentRecord(id, name, prompt, frameworkConfigs, status, createdAt, updatedAt))

\* Agent.updateName(newName)
updateName(this, newName, now, h) ==
  IF newName.type # "AgentName"
    THEN Call(this, Throw("New name must be an instance of AgentName value object"))
    ELSE Call(this, AgentNew(this.id, newName, this.prompt, this.frameworkConfigs,
                             this.status, this.createdAt, DateTimeNow(now), h))

\* Agent.updatePrompt(newPrompt)
updatePrompt(this, newPrompt, now, h) ==
  IF newPrompt.type # "AgentPrompt"
    THEN Call(this, Throw("New prompt must be an instance of AgentPrompt value object"))
    ELSE Call(this, AgentNew(this.id, this.name, newPrompt, this.frameworkConfigs,
                             this.status, this.createdAt, DateTimeNow(now), h))

\* Agent.addFrameworkConfig(frameworkConfig)
addFrameworkConfig(this, frameworkConfig, now, h) ==
  IF frameworkConfig.type # "FrameworkConfig"
    THEN Call(this, Throw("Framework configuration must be an instance of FrameworkConfig value object"))
  ELSE
    LET existingConfigIndex == FindIndex(this.frameworkConfigs, frameworkConfig.frameworkType)
        newConfigs ==
          IF existingConfigIndex # 0
            THEN [this.frameworkConfigs EXCEPT ![existingConfigIndex] = frameworkConfig]
            ELSE Append(this.frameworkConfigs, frameworkConfig)
    IN  Call(this, AgentNew(this.id, this.name, this.prompt, newConfigs,
                            this.status, this.createdAt, DateTimeNow(now), h))

\* Agent.removeFrameworkConfig(frameworkType)
removeFrameworkConfig(this, frameworkType, now, h) ==
  LET Keep(config) == config.frameworkType # frameworkType
      newConfigs == SelectSeq(this.frameworkConfigs, Keep)
  IN  Call(this, AgentNew(this.id, this.name, this.prompt, newConfigs,
                          this.status, this.createdAt, DateTimeNow(now), h))

\* Agent.changeStatus(newStatus)
changeStatus(this, newStatus, now, h) ==
  IF newStatus.type # "AgentStatus"
    THEN Call(this, Throw("New status must be an instance of AgentStatus value object"))
    ELSE Call(this, AgentNew(this.id, this.name, this.prompt, this.frameworkConfigs,
                             newStatus, this.createdAt, DateTimeNow(now), h))

\* the longest description generateConfiguration copies from the prompt
DescriptionLimit == 200

\* FrameworkConfig.addToAgentConfig(agentConfig): the object passed in, after the
\* assignment to its a2a / adk / mcp property
addToAgentConfig(this, agentConfig) ==
  LET key == CASE this.frameworkType = "A2A" -> "a2a"
               [] this.frameworkType = "ADK" -> "adk"
               [] this.frameworkType = "MCP" -> "mcp"
               [] OTHER -> ""
  IN  IF key = "" THEN agentConfig
      ELSE [k \in DOMAIN agentConfig \cup {key} |->
              IF k = key THEN this.configData ELSE agentConfig[k]]

\* Agent.generateConfiguration(): the returned object as a function from its keys
\* to their values.  Inside the forEach callback the parameter `config` shadows the
\* outer `config`, so each FrameworkConfig is handed to its own addToAgentConfig
\* and the assignment lands on that FrameworkConfig, not on the returned object.
generateConfiguration(this) ==
  LET p == this.prompt.value
      config ==
        [k \in {"agent"} |->
           [id |-> this.id.value,
            name |-> this.name.value,
            description |-> IF Len(p) > DescriptionLimit
                              THEN SubSeq(p, 1, DescriptionLimit) \o <<".", ".", ".">>
                              ELSE p,
            prompt |-> p,
            frameworks |-> [i \in DOMAIN this.frameworkConfigs |->
                              this.frameworkConfigs[i].frameworkType],
            created |-> this.createdAt.t,
            status |-> this.status.value]]
      touched == [i \in DOMAIN this.frameworkConfigs |->
                    addToAgentConfig(this.frameworkConfigs[i], this.frameworkConfigs[i])]
  IN  Call([this EXCEPT !.frameworkConfigs = touched], Ok(config))

\* frameworkConfigs.map(config => new FrameworkConfig(config.frameworkType,
\* config.configData)): the list of value objects, or the first error thrown
RECURSIVE MapFrameworkConfigs(_)
MapFrameworkConfigs(plain) ==
  IF plain = <<>> THEN Ok(<<>>)
  ELSE LET head == FrameworkConfigNew(plain[1].frameworkType, plain[1].configData) IN
       IF ~head.ok THEN head
       ELSE LET rest == MapFrameworkConfigs(Tail(plain)) IN
            IF ~rest.ok THEN rest ELSE Ok(<<head.val>> \o rest.val)

\* AgentDomainService.createAgent(name, prompt, frameworkConfigs = []);
\* gid is the value _generateId() returns
createAgent(gid, name, prompt, frameworkConfigs, now, h) ==
  LET agentId == AgentIdNew(Str(gid))
      agentName == AgentNameNew(name)
      agentPrompt == AgentPromptNew(prompt)
      status == AgentStatusNew(Str("DRAFT"))
      createdAt == DateTimeNow(now)
      configObjects == MapFrameworkConfigs(frameworkConfigs)
  IN  IF ~agentId.ok THEN agentId
      ELSE IF ~agentName.ok THEN agentName
      ELSE IF ~agentPrompt.ok THEN agentPrompt
      ELSE IF ~status.ok THEN status
      ELSE IF ~configObjects.ok THEN configObjects
      ELSE AgentNew(agentId.val, agentName.val, agentPrompt.val, configObjects.val,
                    status.val, createdAt, createdAt, h)

----------------------------------------------------------------------------
(* Agent use cases.  An execution is the value its promise settles with    *)
(* (Ok: resolved, Throw: rejected) and the repository contents afterwards. *)

\* AgentDomainService.validateAgent(agent): the list of errors
validateAgent(a) ==
  (IF Len(a.name.value) = 0 \/ Len(Trim(a.name.value)) = 0
     THEN <<"Agent name is required">> ELSE <<>>)
  \o (IF Len(a.prompt.value) = 0 \/ Len(Trim(a.prompt.value)) = 0
     THEN <<"Agent prompt is required">> ELSE <<>>)
  \o (IF Len(a.frameworkConfigs) = 0
     THEN <<"At least one framework must be configured">> ELSE <<>>)

\* InMemoryAgentRepository.save(agent)
save(agents, a) ==
  [id \in DOMAIN agents \cup {a.id.value} |-> IF id = a.id.value THEN a ELSE agents[id]]

\* InMemoryAgentRepository.findAll(): the stored agents (their order is left out)
findAll(agents) == {agents[id] : id \in {i \in DOMAIN agents : agents[i] # Null}}

\* a delete that leaves the map as it is
delete_keeps(agents, id) == agents

\* InMemoryAgentRepository.delete(id)
delete(agents, id) ==
  IF IsString(id) /\ id.v \in DOMAIN agents THEN [agents EXCEPT ![id.v] = Null] ELSE agents

\* the repository a use case is constructed with: the in-memory adapter, or the
\* AgentRepositoryPort base class, whose methods throw
RepositoryPorts == {"InMemoryAgentRepository", "AgentRepositoryPort"}

\* await this.agentRepository.findById(id)
RepositoryFindById(port, agents, id) ==
  IF port = "AgentRepositoryPort"
    THEN Throw("Method findById must be implemented") ELSE Ok(findById(agents, id))

\* await this.agentRepository.save(agent): the repository contents afterwards
RepositorySave(port, agents, a) ==
  IF port = "AgentRepositoryPort"
    THEN Throw("Method save must be implemented") ELSE Ok(save(agents, a))

\* await this.agentRepository.findAll()
RepositoryFindAll(port, agents) ==
  IF port = "AgentRepositoryPort"
    THEN Throw("Method findAll must be implemented") ELSE Ok(findAll(agents))

\* await this.agentRepository.delete(id): the repository contents afterwards
RepositoryDelete(port, agents, id) ==
  IF port = "AgentRepositoryPort"
    THEN Throw("Method delete must be implemented") ELSE Ok(delete(agents, id))

\* return { success: false, errors }
Fail(errors) == [success |-> FALSE, errors |-> errors]

\* the try block returned `result` / threw `error`, with the repository as it then is
Done(result, agents) == [out |-> Ok(result), agents |-> agents]
Raised(error, agents) == [out |-> error, agents |-> agents]

\* try { body } catch (error) { return { success: false, errors: [error.message] } }
\* in an async function: the value the promise settles with
TryCatch_rethrow(body) == body

TryCatch(body) ==
  IF body.ok THEN body ELSE Ok(Fail(<<body.val.message>>))

\* request.frameworkConfigs.forEach(configData => { updatedAgent =
\*   updatedAgent.addFrameworkConfig(new FrameworkConfig(...)) }): the agent after
\* the loop, or the first error thrown
RECURSIVE AddEach(_, _, _, _)
AddEach(a, plain, now, h) ==
  IF plain = <<>> THEN Ok(a)
  ELSE LET frameworkConfig == FrameworkConfigNew(plain[1].frameworkType, plain[1].configData) IN
       IF ~frameworkConfig.ok THEN frameworkConfig
       ELSE LET c == addFrameworkConfig(a, frameworkConfig.val, now, h) IN
            IF ~c.res.ok THEN c.res ELSE AddEach(c.res.val, Tail(plain), now, h)

\* the execution of a use case whose try block ended as b
Execution(b) == [settled |-> TryCatch(b.out), agents |-> b.agents]

\* ConfigureAgentFrameworksUseCase.execute from the point where
\* `await this.agentRepository.findById(request.id)` resumes with existingAgent and
\* the repository holds `agents`
ConfigureAgentFrameworksAfterFind(request, existingAgent, agents, port, now, h) ==
  LET updatedAgent ==
        IF request.frameworkConfigs.type # "array"
          THEN Throw("Cannot read properties of undefined (reading 'forEach')")
          ELSE AddEach(existingAgent.val, request.frameworkConfigs.items, now, h)
      validationErrors == validateAgent(updatedAgent.val)
      saved == RepositorySave(port, agents, updatedAgent.val)
  IN  Execution(
        IF ~existingAgent.ok THEN Raised(existingAgent, agents)
        ELSE IF existingAgent.val = Null THEN Done(Fail(<<"Agent not found">>), agents)
        ELSE IF ~updatedAgent.ok THEN Raised(updatedAgent, agents)
        ELSE IF Len(validationErrors) > 0 THEN Done(Fail(validationErrors), agents)
        ELSE IF ~saved.ok THEN Raised(saved, agents)
        ELSE Done([success |-> TRUE, agent |-> updatedAgent.val,
                   message |-> "Agent frameworks configured successfully"], saved.val))

\* ConfigureAgentFrameworksUseCase.execute(request)
ConfigureAgentFrameworksUseCaseExecute(request, agents, port, now, h) ==
  ConfigureAgentFrameworksAfterFind(request, RepositoryFindById(port, agents, request.id),
                                    agents, port, now, h)

\* CreateAgentUseCase.execute(request)
CreateAgentUseCaseExecute(request, agents, port, gid, now, h) ==
  LET frameworkConfigs ==
        IF request.frameworkConfigs.type = "array" THEN request.frameworkConfigs.items ELSE <<>>
      created == createAgent(gid, request.name, request.prompt, frameworkConfigs, now, h)
      validationErrors == validateAgent(created.val)
      saved == RepositorySave(port, agents, created.val)
  IN  Execution(
        IF Falsy(request.name) \/ Falsy(request.prompt)
          THEN Done(Fail(<<"Name and prompt are required">>), agents)
        ELSE IF ~created.ok THEN Raised(created, agents)
        ELSE IF Len(validationErrors) > 0 THEN Done(Fail(validationErrors), agents)
        ELSE IF ~saved.ok THEN Raised(saved, agents)
        ELSE Done([success |-> TRUE, agent |-> created.val,
                   message |-> "Agent created successfully"], saved.val))

\* UpdateAgentUseCase.execute from the point where
\* `await this.agentRepository.findById(request.id)` resumes with existingAgent and
\* the repository holds `agents`
UpdateAgentAfterFind(request, existingAgent, agents, port, now, h) ==
  LET newName == AgentNameNew(request.name)
      named ==
        IF Falsy(request.name) THEN existingAgent
        ELSE IF ~newName.ok THEN newName
        ELSE updateName(existingAgent.val, newName.val, now, h).res
      newPrompt == AgentPromptNew(request.prompt)
      prompted ==
        IF ~named.ok \/ Falsy(request.prompt) THEN named
        ELSE IF ~newPrompt.ok THEN newPrompt
        ELSE updatePrompt(named.val, newPrompt.val, now, h).res
      updatedAgent ==
        IF ~prompted.ok \/ request.frameworkConfigs.type # "array" THEN prompted
        ELSE AddEach(prompted.val, request.frameworkConfigs.items, now, h)
      validationErrors == validateAgent(updatedAgent.val)
      saved == RepositorySave(port, agents, updatedAgent.val)
  IN  Execution(
        IF ~existingAgent.ok THEN Raised(existingAgent, agents)
        ELSE IF existingAgent.val = Null THEN Done(Fail(<<"Agent not found">>), agents)
        ELSE IF ~updatedAgent.ok THEN Raised(updatedAgent, agents)
        ELSE IF Len(validationErrors) > 0 THEN Done(Fail(validationErrors), agents)
        ELSE IF ~saved.ok THEN Raised(saved, agents)
        ELSE Done([success |-> TRUE, agent |-> updatedAgent.val,
                   message |-> "Agent updated successfully"], saved.val))

\* UpdateAgentUseCase.execute(request)
UpdateAgentUseCaseExecute(request, agents, port, now, h) ==
  UpdateAgentAfterFind(request, RepositoryFindById(port, agents, request.id),
                       agents, port, now, h)

\* GetAgentUseCase.execute(request)
GetAgentUseCaseExecute(request, agents, port) ==
  LET found == RepositoryFindById(port, agents, request.id) IN
  Execution(
    IF ~found.ok THEN Raised(found, agents)
    ELSE IF found.val = Null THEN Done(Fail(<<"Agent not found">>), agents)
    ELSE Done([success |-> TRUE, agent |-> found.val], agents))

\* ListAgentsUseCase.execute()
ListAgentsUseCaseExecute(agents, port) ==
  LET all == RepositoryFindAll(port, agents) IN
  Execution(
    IF ~all.ok THEN Raised(all, agents)
    ELSE Done([success |-> TRUE, agents |-> all.val], agents))

\* DeleteAgentUseCase.execute(request)
DeleteAgentUseCaseExecute(request, agents, port) ==
  LET found == RepositoryFindById(port, agents, request.id)
      deleted == RepositoryDelete(port, agents, request.id)
  IN  Execution(
        IF ~found.ok THEN Raised(found, agents)
        ELSE IF found.val = Null THEN Done(Fail(<<"Agent not found">>), agents)
        ELSE IF ~deleted.ok THEN Raised(deleted, agents)
        ELSE Done([success |-> TRUE, message |-> "Agent deleted successfully"], deleted.val))

----------------------------------------------------------------------------
(* Actions of the payment use cases.                                       *)

T_payment_api == <<"p","a","y","m","e","n","t","_","a","p","i">>
T_my_finance == <<"m","y","_","f","i","n","a","n","c","e">>
T_transactions == <<"t","r","a","n","s","a","c","t","i","o","n","s">>
T_filesystem == <<"f","i","l","e","s","y","s","t","e","m">>
T_Payment == <<"P","a","y","m","e","n","t">>
T_pay == <<"p","a","y">>

N_Bot == <<"B","o","t">>
N_Ann == <<"A","n","n">>
N_BotPadded == <<" ","B","o","t"," ">>
N_Blank == <<" "," ">>
N_TooLong == [i \in 1..(MaxNameLen + 1) |-> "x"]
P_Hi == <<"H","i">>
P_Plan == <<"P","l","a","n">>

\* an agent as a repository hands it out
StoredAgent(id, frameworkConfigs) ==
  AgentRecord(AgentIdNew(Str(id)).val, AgentNameNew(Text(N_Bot)).val,
              AgentPromptNew(Text(P_Hi)).val, frameworkConfigs,
              AgentStatusNew(Str("CONFIGURED")).val, DateTime(0), DateTime(0))

Cfg(frameworkType, tag, tools) ==
  FrameworkConfigNew(Str(frameworkType), ConfigData(tag, tools)).val

\* the framework config lists of the stored agents
StoredConfigLists ==
  { <<>>,
    <<Cfg("MCP", 1, Array(<<T_filesystem, T_payment_api>>))>>,
    <<Cfg("A2A", 1, Undefined), Cfg("MCP", 1, Array(<<T_my_finance>>))>>,
    <<Cfg("MCP", 1, Array(<<T_transactions>>)), Cfg("ADK", 1, Array(<<T_filesystem>>))>>,
    <<Cfg("MCP", 1, Array(<<T_filesystem, T_Payment, T_pay>>))>>,
    <<Cfg("MCP", 1, Array(<<>>))>>,
    <<Cfg("MCP", 1, Undefined)>>,
    <<Cfg("ADK", 1, Array(<<T_payment_api>>))>>,
    <<Cfg("MCP", 1, Array(<<T_filesystem>>)), Cfg("ADK", 1, Array(<<T_payment_api>>))>> }

StoredIds == {"a1"}
AgentIdArgs == {Undefined, Str("a1"), Str("a9")}

CreateRequests ==
  [amount : RequestAmounts, currency : {Undefined},
   methodType : {Str("digital_wallet"), Undefined},
   description : {Str("Test payment"), Str("")},
   recipient : {Str("Merchant")}, agentId : AgentIdArgs]

PaymentDetails ==
  [type : {"object"}, amount : RequestAmounts, currency : {Undefined},
   methodType : {Undefined},
   description : {Undefined, Str("")},
   recipient : {Str("Merchant"), Undefined}]

ProcessRequests ==
  [agentId : AgentIdArgs, paymentDetails : PaymentDetails \cup {Undefined}]

NoUseCase ==
  [name |-> "none", request |-> Undefined, result |-> Failure(<<>>).result,
   created |-> NotReached, calls |-> <<>>]

\* one execution of CreatePaymentUseCase
ExecuteCreatePayment ==
  \E request \in CreateRequests, gid \in GeneratedIds, processor \in PaymentProcessors :
    LET e == CreatePaymentUseCaseExecute(request, repo, processor, gid, clock) IN
    /\ uc' = [name |-> "CreatePayment", request |-> request,
              result |-> e.result, created |-> e.created, calls |-> e.calls,
              processor |-> processor]
    /\ UNCHANGED <<clock, repo, adapter, payVars, agentVars, svcVars>>

\* one execution of ProcessAgentPaymentUseCase
ExecuteProcessAgentPayment ==
  \E request \in ProcessRequests, gid \in GeneratedIds, processor \in PaymentProcessors :
    LET e == ProcessAgentPaymentUseCaseExecute(request, repo, processor, gid, clock) IN
    /\ uc' = [name |-> "ProcessAgentPayment", request |-> request,
              result |-> e.result, created |-> e.created, calls |-> e.calls,
              processor |-> processor]
    /\ UNCHANGED <<clock, repo, adapter, payVars, agentVars, svcVars>>

----------------------------------------------------------------------------
(* Actions on the Agent aggregate.                                         *)

AgentIdObject == AgentIdNew(Str("a1")).val
AgentNameObjects == Built({AgentNameNew(Text(n)) : n \in {N_Bot, N_Ann}})
AgentPromptObjects == Built({AgentPromptNew(Text(p)) : p \in {P_Hi, P_Plan}})
AgentStatusObjects == Built({AgentStatusNew(Str(st)) : st \in AgentStatuses})
FrameworkConfigObjects ==
  {Cfg(t, tag, Undefined) : t \in FrameworkTypes, tag \in 1..MaxTag}

\* all lists of at most n elements of S
ListsOf(S, n) == UNION {[1..k -> S] : k \in 0..n}

\* the frameworkTypes of a list of configs
TypesOf(configs) == {configs[i].frameworkType : i \in DOMAIN configs}

\* at most one config per frameworkType
UniqueByType(configs) ==
  \A i, j \in DOMAIN configs :
    configs[i].frameworkType = configs[j].frameworkType => i = j

\* the aggregates a mutator is called on
ReceiverAgents ==
  {AgentRecord(AgentIdObject, AgentNameNew(Text(N_Bot)).val, AgentPromptNew(Text(P_Hi)).val,
               configs, AgentStatusNew(Str("DRAFT")).val, DateTime(0), DateTime(0)) :
     configs \in {l \in ListsOf({Cfg(t, 1, Undefined) : t \in FrameworkTypes}, MaxConfigs) :
                    UniqueByType(l)}}

\* arguments of createAgent
RawNames == {Text(N_BotPadded), Text(N_Blank), Text(N_TooLong), Undefined}
RawPrompts == {Text(P_Hi), Text(<<>>)}
PlainConfigs ==
  {[frameworkType |-> Str("A2A"), configData |-> ConfigData(tag, Undefined)] : tag \in 1..MaxTag}
  \cup {[frameworkType |-> Str("mcp"), configData |-> Undefined],
        [frameworkType |-> Str("XYZ"), configData |-> Undefined]}

NoAgentCall == [op |-> "none", args |-> Undefined, recv |-> Null, this |-> Null, res |-> Ok(Null)]

\* a caller constructs an Agent directly
NewAgent ==
  \E name \in {AgentNameNew(Text(N_Bot)).val, Text(N_Bot)},
     prompt \in {AgentPromptNew(Text(P_Hi)).val, Text(P_Hi)},
     frameworkConfigs \in {<<>>, <<Cfg("A2A", 1, Undefined)>>, <<EmptyConfigData>>},
     status \in {AgentStatusNew(Str("DRAFT")).val, Str("DRAFT")},
     id \in {AgentIdObject, Str("a1")},
     createdAt \in TimeArgs(clock) :
    LET r == AgentNew(id, name, prompt, frameworkConfigs, status, createdAt, createdAt, host) IN
    /\ alast' = [op |-> "new",
                 args |-> [id |-> id, name |-> name, prompt |-> prompt,
                           frameworkConfigs |-> frameworkConfigs, status |-> status,
                           createdAt |-> createdAt, updatedAt |-> createdAt],
                 recv |-> Null, this |-> Null, res |-> r]
    /\ agent' = IF r.ok THEN r.val ELSE agent
    /\ UNCHANGED <<clock, host, payVars, ucVars, svcVars>>

\* a caller builds an agent through AgentDomainService.createAgent
CreateAgent ==
  \E name \in RawNames, prompt \in RawPrompts,
     frameworkConfigs \in ListsOf(PlainConfigs, MaxConfigs) :
    LET r == createAgent("agent_1", name, prompt, frameworkConfigs, clock, host) IN
    /\ alast' = [op |-> "createAgent",
                 args |-> [name |-> name, prompt |-> prompt,
                           frameworkConfigs |-> frameworkConfigs],
                 recv |-> Null, this |-> Null, res |-> r]
    /\ agent' = IF r.ok THEN r.val ELSE agent
    /\ UNCHANGED <<clock, host, payVars, ucVars, svcVars>>

\* the caller invokes a mutator on the aggregate it holds; when the call returns a
\* new aggregate the caller replaces its handle with it
Mutate(op, arg, c) ==
  /\ alast' = [op |-> op, args |-> [x |-> arg], recv |-> agent, this |-> c.this, res |-> c.res]
  /\ agent' = IF c.res.ok THEN c.res.val ELSE c.this
  /\ UNCHANGED <<clock, host, payVars, ucVars, svcVars>>

UpdateName ==
  \E newName \in AgentNameObjects \cup {Text(N_Ann)} :
    Mutate("updateName", newName, updateName(agent, newName, clock, host))

UpdatePrompt ==
  \E newPrompt \in AgentPromptObjects \cup {Text(P_Plan)} :
    Mutate("updatePrompt", newPrompt, updatePrompt(agent, newPrompt, clock, host))

AddFrameworkConfig ==
  \E x \in FrameworkConfigObjects \cup {EmptyConfigData} :
    Mutate("addFrameworkConfig", x, addFrameworkConfig(agent, x, clock, host))

RemoveFrameworkConfig ==
  \E t \in FrameworkTypes :
    Mutate("removeFrameworkConfig", Str(t), removeFrameworkConfig(agent, t, clock, host))

ChangeStatus ==
  \E newStatus \in AgentStatusObjects \cup {Str("DEPLOYED")} :
    Mutate("changeStatus", newStatus, changeStatus(agent, newStatus, clock, host))

\* the caller asks the aggregate it holds for its configuration object
GenerateConfiguration ==
  LET c == generateConfiguration(agent) IN
  /\ alast' = [op |-> "generateConfiguration", args |-> Undefined, recv |-> agent,
               this |-> c.this, res |-> c.res]
  /\ agent' = c.this
  /\ UNCHANGED <<clock, host, payVars, ucVars, svcVars>>

----------------------------------------------------------------------------
(* Actions of the agent use cases.                                         *)

RequestIds == {Undefined, Str("a1"), Str("a9")}

\* the record of one agent use-case execution
Executed(name, request, e) ==
  [name |-> name, request |-> request, result |-> e.settled.val,
   created |-> NotReached, calls |-> <<>>]

\* one execution of ConfigureAgentFrameworksUseCase
ExecuteConfigureAgentFrameworks ==
  \E id \in RequestIds,
     frameworkConfigs \in {Array(l) : l \in ListsOf(PlainConfigs, MaxConfigs)}
                          \cup {Undefined} :
    LET request == [id |-> id, frameworkConfigs |-> frameworkConfigs]
        e == ConfigureAgentFrameworksUseCaseExecute(request, repo, adapter, clock, host)
    IN  /\ uc' = Executed("ConfigureAgentFrameworks", request, e)
        /\ repo' = e.agents
        /\ UNCHANGED <<clock, adapter, payVars, agentVars, svcVars>>

\* the requests of the create and update use cases
CreateAgentRequests ==
  [name : {Text(N_Bot), Text(N_Blank), Undefined},
   prompt : {Text(P_Hi), Undefined},
   frameworkConfigs : {Undefined, Array(<<>>),
                       Array(<<[frameworkType |-> Str("XYZ"), configData |-> Undefined]>>)}]

UpdateAgentRequests ==
  [id : RequestIds,
   name : {Undefined, Text(N_Ann), Text(N_TooLong)},
   prompt : {Undefined, Text(P_Plan)},
   frameworkConfigs : {Undefined, Array(<<>>),
                       Array(<<[frameworkType |-> Str("mcp"), configData |-> Undefined]>>)}]

\* one execution of CreateAgentUseCase
ExecuteCreateAgent ==
  \E request \in CreateAgentRequests :
    LET e == CreateAgentUseCaseExecute(request, repo, adapter, "agent_1", clock, host) IN
    /\ uc' = Executed("CreateAgent", request, e)
    /\ repo' = e.agents
    /\ UNCHANGED <<clock, adapter, payVars, agentVars, svcVars>>

\* one execution of UpdateAgentUseCase
ExecuteUpdateAgent ==
  \E request \in UpdateAgentRequests :
    LET e == UpdateAgentUseCaseExecute(request, repo, adapter, clock, host) IN
    /\ uc' = Executed("UpdateAgent", request, e)
    /\ repo' = e.agents
    /\ UNCHANGED <<clock, adapter, payVars, agentVars, svcVars>>

\* one execution of GetAgentUseCase
ExecuteGetAgent ==
  \E id \in RequestIds :
    LET e == GetAgentUseCaseExecute([id |-> id], repo, adapter) IN
    /\ uc' = Executed("GetAgent", [id |-> id], e)
    /\ repo' = e.agents
    /\ UNCHANGED <<clock, adapter, payVars, agentVars, svcVars>>

\* one execution of ListAgentsUseCase
ExecuteListAgents ==
  LET e == ListAgentsUseCaseExecute(repo, adapter) IN
  /\ uc' = Executed("ListAgents", Undefined, e)
  /\ repo' = e.agents
  /\ UNCHANGED <<clock, adapter, payVars, agentVars, svcVars>>

\* one execution of DeleteAgentUseCase
ExecuteDeleteAgent ==
  \E id \in RequestIds :
    LET e == DeleteAgentUseCaseExecute([id |-> id], repo, adapter) IN
    /\ uc' = Executed("DeleteAgent", [id |-> id], e)
    /\ repo' = e.agents
    /\ UNCHANGED <<clock, adapter, payVars, agentVars, svcVars>>

----------------------------------------------------------------------------
(* AgentDomainService.recommendFrameworks.                                 *)

UpperCaseLetters == <<"A","B","C","D","E","F","G","H","I","J","K","L","M",
                      "N","O","P","Q","R","S","T","U","V","W","X","Y","Z">>
LowerCaseLetters == <<"a","b","c","d","e","f","g","h","i","j","k","l","m",
                      "n","o","p","q","r","s","t","u","v","w","x","y","z">>

\* String.prototype.toLowerCase on a character sequence
ToLowerCase(cs) ==
  [i \in DOMAIN cs |->
     IF \E j \in DOMAIN UpperCaseLetters : UpperCaseLetters[j] = cs[i]
       THEN LowerCaseLetters[CHOOSE j \in DOMAIN UpperCaseLetters : UpperCaseLetters[j] = cs[i]]
       ELSE cs[i]]

\* the keywords recommendFrameworks looks for
K_agent_to_agent == <<"a", "g", "e", "n", "t", "-", "t", "o", "-", "a", "g", "e", "n", "t">>
K_a2a == <<"a", "2", "a">>
K_collaboration == <<"c", "o", "l", "l", "a", "b", "o", "r", "a", "t", "i", "o", "n">>
K_multi_agent == <<"m", "u", "l", "t", "i", "-", "a", "g", "e", "n", "t">>
K_communication == <<"c", "o", "m", "m", "u", "n", "i", "c", "a", "t", "i", "o", "n">>
K_development_kit == <<"d", "e", "v", "e", "l", "o", "p", "m", "e", "n", "t", " ", "k", "i", "t">>
K_adk == <<"a", "d", "k">>
K_workflow == <<"w", "o", "r", "k", "f", "l", "o", "w">>
K_orchestration == <<"o", "r", "c", "h", "e", "s", "t", "r", "a", "t", "i", "o", "n">>
K_process == <<"p", "r", "o", "c", "e", "s", "s">>
K_model_context == <<"m", "o", "d", "e", "l", " ", "c", "o", "n", "t", "e", "x", "t">>
K_mcp == <<"m", "c", "p">>
K_external_tools == <<"e", "x", "t", "e", "r", "n", "a", "l", " ", "t", "o", "o", "l", "s">>
K_data_sources == <<"d", "a", "t", "a", " ", "s", "o", "u", "r", "c", "e", "s">>
K_tool_integration == <<"t", "o", "o", "l", " ", "i", "n", "t", "e", "g", "r", "a", "t", "i", "o", "n">>
K_resource_access == <<"r", "e", "s", "o", "u", "r", "c", "e", " ", "a", "c", "c", "e", "s", "s">>

\* recommendFrameworks with the three tests chained by else-if
recommendFrameworks_firstMatch(prompt) ==
  LET lowerPrompt == ToLowerCase(prompt)
      a2a == \/ Includes(lowerPrompt, K_agent_to_agent)
             \/ Includes(lowerPrompt, K_a2a)
             \/ Includes(lowerPrompt, K_collaboration)
             \/ Includes(lowerPrompt, K_multi_agent)
             \/ Includes(lowerPrompt, K_communication)
      adk == \/ Includes(lowerPrompt, K_development_kit)
             \/ Includes(lowerPrompt, K_adk)
             \/ Includes(lowerPrompt, K_workflow)
             \/ Includes(lowerPrompt, K_orchestration)
             \/ Includes(lowerPrompt, K_process)
      mcp == \/ Includes(lowerPrompt, K_model_context)
             \/ Includes(lowerPrompt, K_mcp)
             \/ Includes(lowerPrompt, K_external_tools)
             \/ Includes(lowerPrompt, K_data_sources)
             \/ Includes(lowerPrompt, K_tool_integration)
             \/ Includes(lowerPrompt, K_resource_access)
  IN  IF a2a THEN <<"A2A">> ELSE IF adk THEN <<"ADK">> ELSE IF mcp THEN <<"MCP">> ELSE <<>>

\* AgentDomainService.recommendFrameworks(prompt): Array.from(frameworks), the
\* members of the Set in insertion order
recommendFrameworks(prompt) ==
  LET lowerPrompt == ToLowerCase(prompt)
      a2a == \/ Includes(lowerPrompt, K_agent_to_agent)
             \/ Includes(lowerPrompt, K_a2a)
             \/ Includes(lowerPrompt, K_collaboration)
             \/ Includes(lowerPrompt, K_multi_agent)
             \/ Includes(lowerPrompt, K_communication)
      adk == \/ Includes(lowerPrompt, K_development_kit)
             \/ Includes(lowerPrompt, K_adk)
             \/ Includes(lowerPrompt, K_workflow)
             \/ Includes(lowerPrompt, K_orchestration)
             \/ Includes(lowerPrompt, K_process)
      mcp == \/ Includes(lowerPrompt, K_model_context)
             \/ Includes(lowerPrompt, K_mcp)
             \/ Includes(lowerPrompt, K_external_tools)
             \/ Includes(lowerPrompt, K_data_sources)
             \/ Includes(lowerPrompt, K_tool_integration)
             \/ Includes(lowerPrompt, K_resource_access)
  IN  (IF a2a THEN <<"A2A">> ELSE <<>>)
      \o (IF adk THEN <<"ADK">> ELSE <<>>)
      \o (IF mcp THEN <<"MCP">> ELSE <<>>)

\* words of the prompts
W_Multi_Agent == <<"M", "u", "l", "t", "i", "-", "A", "g", "e", "n", "t">>
W_MCP == <<"M", "C", "P">>
W_external == <<"e", "x", "t", "e", "r", "n", "a", "l">>
W_tools == <<"t", "o", "o", "l", "s">>
W_APIs == <<"A", "P", "I", "s">>
W_coordinator == <<"c", "o", "o", "r", "d", "i", "n", "a", "t", "o", "r">>

PromptWords ==
  {K_agent_to_agent, K_a2a, K_collaboration, K_multi_agent, K_communication,
   K_development_kit, K_adk, K_workflow, K_orchestration, K_process,
   K_model_context, K_mcp, K_external_tools, K_data_sources, K_tool_integration, K_resource_access,
   W_Multi_Agent, W_MCP, W_external, W_tools, W_APIs, W_coordinator}

\* the words of a list joined by single spaces
RECURSIVE JoinWords(_)
JoinWords(ws) ==
  IF ws = <<>> THEN <<>>
  ELSE IF Len(ws) = 1 THEN ws[1]
  ELSE ws[1] \o <<" ">> \o JoinWords(Tail(ws))

P_Coordinator ==
  JoinWords(<<<<"B", "u", "i", "l", "d">>,
              <<"a">>,
              <<"m", "u", "l", "t", "i", "-", "a", "g", "e", "n", "t">>,
              <<"c", "o", "o", "r", "d", "i", "n", "a", "t", "o", "r">>,
              <<"w", "i", "t", "h">>,
              <<"e", "x", "t", "e", "r", "n", "a", "l">>,
              <<"A", "P", "I", "s">>,
              <<"a", "n", "d">>,
              <<"w", "o", "r", "k", "f", "l", "o", "w">>,
              <<"o", "r", "c", "h", "e", "s", "t", "r", "a", "t", "i", "o", "n">>>>)

Prompts == {JoinWords(ws) : ws \in ListsOf(PromptWords, MaxWords)} \cup {P_Coordinator}

NoInput == [text |-> <<>>, tools |-> <<>>, frameworkType |-> "ADK"]
NoServiceCall == [op |-> "none", res |-> <<>>]

\* a caller asks for the frameworks of a prompt
RecommendFrameworks ==
  /\ svc' = [op |-> "recommendFrameworks", res |-> recommendFrameworks(input.text)]
  /\ UNCHANGED <<clock, input, payVars, ucVars, agentVars>>

----------------------------------------------------------------------------
(* AgentOrchestratorService.createAgenticPlan and                          *)
(* AP2DomainService.createPaymentProcessingPlan.                           *)

\* the keywords the orchestrator looks for in a goal
K_research == <<"r", "e", "s", "e", "a", "r", "c", "h">>
K_analyze == <<"a", "n", "a", "l", "y", "z", "e">>
K_create == <<"c", "r", "e", "a", "t", "e">>
K_generate == <<"g", "e", "n", "e", "r", "a", "t", "e">>
K_coordinate == <<"c", "o", "o", "r", "d", "i", "n", "a", "t", "e">>
K_manage == <<"m", "a", "n", "a", "g", "e">>
K_data == <<"d", "a", "t", "a">>
K_document == <<"d", "o", "c", "u", "m", "e", "n", "t">>
K_text == <<"t", "e", "x", "t">>
K_content == <<"c", "o", "n", "t", "e", "n", "t">>
K_web == <<"w", "e", "b">>
K_api == <<"a", "p", "i">>
K_internet == <<"i", "n", "t", "e", "r", "n", "e", "t">>
K_email == <<"e", "m", "a", "i", "l">>
K_message == <<"m", "e", "s", "s", "a", "g", "e">>
K_notify == <<"n", "o", "t", "i", "f", "y">>
K_report == <<"r", "e", "p", "o", "r", "t">>
K_solve == <<"s", "o", "l", "v", "e">>
K_resolve == <<"r", "e", "s", "o", "l", "v", "e">>

\* the tool names the orchestrator knows, and one it does not
T_data_processor == <<"d", "a", "t", "a", "_", "p", "r", "o", "c", "e", "s", "s", "o", "r">>
T_database_connector == <<"d", "a", "t", "a", "b", "a", "s", "e", "_", "c", "o", "n", "n", "e", "c", "t", "o", "r">>
T_visualization == <<"v", "i", "s", "u", "a", "l", "i", "z", "a", "t", "i", "o", "n">>
T_document_parser == <<"d", "o", "c", "u", "m", "e", "n", "t", "_", "p", "a", "r", "s", "e", "r">>
T_content_generator == <<"c", "o", "n", "t", "e", "n", "t", "_", "g", "e", "n", "e", "r", "a", "t", "o", "r">>
T_file_handler == <<"f", "i", "l", "e", "_", "h", "a", "n", "d", "l", "e", "r">>
T_web_client == <<"w", "e", "b", "_", "c", "l", "i", "e", "n", "t">>
T_api_connector == <<"a", "p", "i", "_", "c", "o", "n", "n", "e", "c", "t", "o", "r">>
T_email_sender == <<"e", "m", "a", "i", "l", "_", "s", "e", "n", "d", "e", "r">>
T_notification_service == <<"n", "o", "t", "i", "f", "i", "c", "a", "t", "i", "o", "n", "_", "s", "e", "r", "v", "i", "c", "e">>
T_general_tools == <<"g", "e", "n", "e", "r", "a", "l", "_", "t", "o", "o", "l", "s">>
T_custom_tool == <<"c", "u", "s", "t", "o", "m", "_", "t", "o", "o", "l">>

\* a plan step: { id, action, dependencies } (the free-text description is left out)
Step(id, action, dependencies) == [id |-> id, action |-> action, dependencies |-> dependencies]

\* the step lists of createAgenticPlan
ResearchSteps ==
  <<Step(1, "gather_information", <<>>), Step(2, "analyze_data", <<1>>),
    Step(3, "generate_report", <<2>>)>>
CreateSteps ==
  <<Step(1, "collect_requirements", <<>>), Step(2, "create_draft", <<1>>),
    Step(3, "review_draft", <<2>>), Step(4, "finalize_output", <<3>>)>>
CoordinateSteps ==
  <<Step(1, "identify_agents", <<>>), Step(2, "delegate_tasks", <<1>>),
    Step(3, "monitor_progress", <<2>>), Step(4, "coordinate_completion", <<3>>)>>
\* the default list with the dependency of its first two steps reversed
DefaultSteps_forwardDependency ==
  <<Step(1, "understand_request", <<2>>), Step(2, "plan_execution", <<>>),
    Step(3, "execute_plan", <<2>>), Step(4, "verify_result", <<3>>),
    Step(5, "present_result", <<4>>)>>
DefaultSteps ==
  <<Step(1, "understand_request", <<>>), Step(2, "plan_execution", <<1>>),
    Step(3, "execute_plan", <<2>>), Step(4, "verify_result", <<3>>),
    Step(5, "present_result", <<4>>)>>

\* minutes estimated per step
MinutesPerStep == 5

\* Array.prototype.includes
ArrayIncludes(list, x) == \E i \in DOMAIN list : list[i] = x

\* the tools of `names`, in that order, that availableTools holds
Available(availableTools, names) ==
  LET Has(t) == ArrayIncludes(availableTools, t) IN SelectSeq(names, Has)

\* _identifyRequiredTools that takes the data tools of a data goal without looking
\* at availableTools
identifyRequiredTools_invents(goal, availableTools) ==
  LET goalLower == ToLowerCase(goal) IN
  IF Includes(goalLower, K_data) \/ Includes(goalLower, K_analyze) \/ Includes(goalLower, K_research)
    THEN <<T_data_processor, T_database_connector, T_visualization>>
    ELSE <<>>

\* AgentOrchestratorService._identifyRequiredTools(goal, availableTools)
identifyRequiredTools(goal, availableTools) ==
  LET goalLower == ToLowerCase(goal)
      requiredTools ==
        (IF Includes(goalLower, K_data) \/ Includes(goalLower, K_analyze)
            \/ Includes(goalLower, K_research)
           THEN Available(availableTools, <<T_data_processor, T_database_connector, T_visualization>>)
           ELSE <<>>)
        \o (IF Includes(goalLower, K_document) \/ Includes(goalLower, K_text)
               \/ Includes(goalLower, K_content)
              THEN Available(availableTools, <<T_document_parser, T_content_generator, T_file_handler>>)
              ELSE <<>>)
        \o (IF Includes(goalLower, K_web) \/ Includes(goalLower, K_api)
               \/ Includes(goalLower, K_internet)
              THEN Available(availableTools, <<T_web_client, T_api_connector>>)
              ELSE <<>>)
        \o (IF Includes(goalLower, K_email) \/ Includes(goalLower, K_message)
               \/ Includes(goalLower, K_notify)
              THEN Available(availableTools, <<T_email_sender, T_notification_service>>)
              ELSE <<>>)
  IN  IF Len(requiredTools) = 0 /\ ArrayIncludes(availableTools, T_general_tools)
        THEN <<T_general_tools>>
        ELSE requiredTools

\* AgentOrchestratorService._generateSuccessCriteria(goal)
generateSuccessCriteria(goal) ==
  LET goalLower == ToLowerCase(goal) IN
  IF Includes(goalLower, K_report) \/ Includes(goalLower, K_analyze)
    THEN <<"Analysis is comprehensive and accurate",
           "Report is well-structured and clear",
           "Key insights are identified and highlighted">>
  ELSE IF Includes(goalLower, K_create) \/ Includes(goalLower, K_generate)
    THEN <<"Output meets the specified requirements",
           "Content is coherent and well-organized",
           "All necessary elements are included">>
  ELSE IF Includes(goalLower, K_solve) \/ Includes(goalLower, K_resolve)
    THEN <<"Problem is correctly identified",
           "Solution is appropriate and effective",
           "Solution addresses root cause, not just symptoms">>
  ELSE <<"Goal is successfully achieved",
         "Output quality meets expectations",
         "Process is efficient and follows best practices">>

\* createAgenticPlan testing create/generate before research/analyze
createAgenticPlan_createFirst(goal, availableTools, frameworkType) ==
  LET goalLower == ToLowerCase(goal)
      steps ==
        IF Includes(goalLower, K_create) \/ Includes(goalLower, K_generate)
          THEN CreateSteps
        ELSE IF Includes(goalLower, K_research) \/ Includes(goalLower, K_analyze)
          THEN ResearchSteps
        ELSE IF Includes(goalLower, K_coordinate) \/ Includes(goalLower, K_manage)
          THEN CoordinateSteps
        ELSE DefaultSteps
  IN  [goal |-> goal, frameworkType |-> frameworkType, steps |-> steps,
       requiredTools |-> identifyRequiredTools(goal, availableTools),
       estimatedTime |-> Len(steps) * MinutesPerStep,
       successCriteria |-> generateSuccessCriteria(goal)]

\* AgentOrchestratorService.createAgenticPlan(goal, availableTools, frameworkType)
createAgenticPlan(goal, availableTools, frameworkType) ==
  LET goalLower == ToLowerCase(goal)
      steps ==
        IF Includes(goalLower, K_research) \/ Includes(goalLower, K_analyze)
          THEN ResearchSteps
        ELSE IF Includes(goalLower, K_create) \/ Includes(goalLower, K_generate)
          THEN CreateSteps
        ELSE IF Includes(goalLower, K_coordinate) \/ Includes(goalLower, K_manage)
          THEN CoordinateSteps
        ELSE DefaultSteps
  IN  [goal |-> goal, frameworkType |-> frameworkType, steps |-> steps,
       requiredTools |-> identifyRequiredTools(goal, availableTools),
       estimatedTime |-> Len(steps) * MinutesPerStep,
       successCriteria |-> generateSuccessCriteria(goal)]

\* the step lists of createPaymentProcessingPlan
PendingPaymentSteps ==
  <<Step(1, "validate_payment_details", <<>>), Step(2, "check_recipient", <<1>>),
    Step(3, "verify_funds", <<2>>), Step(4, "authorize_payment", <<3>>),
    Step(5, "process_payment", <<4>>), Step(6, "confirm_completion", <<5>>)>>
AuthorizedPaymentSteps ==
  <<Step(1, "capture_funds", <<>>), Step(2, "transfer_funds", <<1>>),
    Step(3, "update_status", <<2>>)>>

\* AP2DomainService.generatePaymentSecurity(agent): the framework-dependent flags
generatePaymentSecurity(a) ==
  [inter_agent_auth |-> hasFramework(a, "A2A"),
   workflow_integrity |-> hasFramework(a, "ADK"),
   external_api_security |-> hasFramework(a, "MCP")]

\* minutes estimated for a full payment processing
PaymentProcessingMinutes == 5

\* AP2DomainService.createPaymentProcessingPlan(agent, payment)
createPaymentProcessingPlan(a, payment) ==
  [agentId |-> a.id.value, paymentId |-> payment.id.value, frameworkType |-> "AP2",
   steps |-> IF payment.status.value = "PENDING" THEN PendingPaymentSteps
             ELSE IF payment.status.value = "AUTHORIZED" THEN AuthorizedPaymentSteps
             ELSE <<>>,
   security |-> generatePaymentSecurity(a),
   estimatedTime |-> PaymentProcessingMinutes]

\* words of the goals
W_Analyze == <<"A", "n", "a", "l", "y", "z", "e">>
W_sales == <<"s", "a", "l", "e", "s">>
W_trends == <<"t", "r", "e", "n", "d", "s">>

GoalWords ==
  {K_research, K_analyze, K_create, K_generate, K_coordinate, K_manage,
   K_data, K_document, K_web, K_notify, W_Analyze, W_sales}

G_AnalyzeSales ==
  JoinWords(<<W_Analyze, W_sales, K_data, <<"t", "o">>,
              <<"i", "d", "e", "n", "t", "i", "f", "y">>, W_trends>>)

Goals == {JoinWords(ws) : ws \in ListsOf(GoalWords, MaxWords)} \cup {G_AnalyzeSales}

\* the availableTools lists handed to createAgenticPlan
ToolLists ==
  { <<>>,
    <<T_data_processor>>,
    <<T_general_tools>>,
    <<T_visualization, T_data_processor, T_web_client, T_general_tools>>,
    <<T_custom_tool, T_email_sender, T_document_parser, T_api_connector>> }

\* the payments createPaymentProcessingPlan is handed
PlanPayments ==
  LET p == createPayment("payment_1", Num(1), Str("USD"), Str("CREDIT_CARD"), Undefined,
                         Str("Test payment"), Str("Merchant"), 0).val
  IN  {p, authorize(p, 0).res.val, capture(authorize(p, 0).res.val, 0).res.val,
       cancel(p, 0).res.val}

\* the agents createPaymentProcessingPlan is handed
PlanAgents ==
  {StoredAgent("a1", <<>>),
   StoredAgent("a1", <<Cfg("A2A", 1, Undefined), Cfg("MCP", 1, Array(<<T_my_finance>>))>>)}

\* a caller asks the orchestrator for a plan
CreateAgenticPlan ==
  /\ svc' = [op |-> "createAgenticPlan",
             res |-> createAgenticPlan(input.text, input.tools, input.frameworkType)]
  /\ UNCHANGED <<clock, input, payVars, ucVars, agentVars>>

\* a caller asks the payment service for the processing plan of a payment
CreatePaymentProcessingPlan ==
  \E payment \in PlanPayments, a \in PlanAgents :
    /\ svc' = [op |-> "createPaymentProcessingPlan", payment |-> payment,
               res |-> createPaymentProcessingPlan(a, payment)]
    /\ UNCHANGED <<clock, input, payVars, ucVars, agentVars>>

----------------------------------------------------------------------------
(* AgentOrchestratorService: evaluation and multi-agent coordination, and   *)
(* the orchestration use cases.                                            *)

K_orchestrate == <<"o", "r", "c", "h", "e", "s", "t", "r", "a", "t", "e">>
K_tool == <<"t", "o", "o", "l">>
K_access == <<"a", "c", "c", "e", "s", "s">>
K_analysis == <<"a", "n", "a", "l", "y", "s", "i", "s">>

\* the points of one fit in evaluateAgentForGoal
PointsPerFit == 25
\* the prefix of the goal and of the prompt that evaluateAgentForGoal compares
RelevancePrefix == 20

\* String.prototype.substring(0, n)
Substring0(cs, n) == SubSeq(cs, 1, IF Len(cs) < n THEN Len(cs) ELSE n)

\* cs.split(' ')[0]
FirstWord(cs) ==
  LET spaces == {i \in DOMAIN cs : cs[i] = " "} IN
  IF spaces = {} THEN cs
  ELSE SubSeq(cs, 1, (CHOOSE i \in spaces : \A j \in spaces : i <= j) - 1)

\* AgentOrchestratorService.evaluateAgentForGoal(agent, goal)
evaluateAgentForGoal(a, goal) ==
  LET goalLower == ToLowerCase(goal)
      Has(k) == Includes(goalLower, k)
      a2aFit == (Has(K_communication) \/ Has(K_coordinate) \/ Has(K_multi_agent))
                /\ hasFramework(a, "A2A")
      a2aMissing == ~a2aFit /\ (Has(K_communication) \/ Has(K_coordinate))
                    /\ ~hasFramework(a, "A2A")
      adkFit == (Has(K_workflow) \/ Has(K_process) \/ Has(K_orchestrate))
                /\ hasFramework(a, "ADK")
      adkMissing == ~adkFit /\ (Has(K_workflow) \/ Has(K_process))
                    /\ ~hasFramework(a, "ADK")
      mcpFit == (Has(K_data) \/ Has(K_tool) \/ Has(K_access)) /\ hasFramework(a, "MCP")
      mcpMissing == ~mcpFit /\ (Has(K_data) \/ Has(K_tool)) /\ ~hasFramework(a, "MCP")
      agentPrompt == ToLowerCase(a.prompt.value)
      aligned == \/ Includes(agentPrompt, Substring0(goalLower, RelevancePrefix))
                 \/ Has(FirstWord(Substring0(agentPrompt, RelevancePrefix)))
      Points(fit) == IF fit THEN PointsPerFit ELSE 0
      Say(fit, well, missing, recommended) ==
        IF fit THEN <<well>> ELSE IF missing THEN <<recommended>> ELSE <<>>
  IN  [agentId |-> a.id.value,
       goal |-> goal,
       score |-> Points(a2aFit) + Points(adkFit) + Points(mcpFit) + Points(aligned),
       feedback |->
         Say(a2aFit, "A2A framework well-suited for communication tasks",
             a2aMissing, "A2A framework recommended for communication tasks")
         \o Say(adkFit, "ADK framework well-suited for workflow tasks",
                adkMissing, "ADK framework recommended for workflow tasks")
         \o Say(mcpFit, "MCP framework well-suited for data/tool access tasks",
                mcpMissing, "MCP framework recommended for data/tool access tasks")
         \o <<IF aligned THEN "Agent prompt aligns well with the goal"
                         ELSE "Agent prompt could be more specific to the goal">>,
       recommendations |->
         (IF a2aMissing
            THEN <<"Consider adding A2A framework for better communication capabilities">>
            ELSE <<>>)
         \o (IF adkMissing
               THEN <<"Consider adding ADK framework for workflow orchestration">>
               ELSE <<>>)
         \o (IF mcpMissing
               THEN <<"Consider adding MCP framework for external resource access">>
               ELSE <<>>)
         \o (IF aligned THEN <<>>
             ELSE <<"Consider updating the agent prompt to be more specific to the goal">>)]

\* agent.frameworkConfigs.map(config => config.frameworkType)
Capabilities(a) ==
  [i \in DOMAIN a.frameworkConfigs |-> a.frameworkConfigs[i].frameworkType]

\* AgentOrchestratorService._assignRole(coordinationGoal, agent)
assignRole(coordinationGoal, a) ==
  LET goalLower == ToLowerCase(coordinationGoal)
      capabilities == Capabilities(a)
  IN  IF Includes(goalLower, K_analysis) \/ Includes(goalLower, K_data)
        THEN IF ArrayIncludes(capabilities, "ADK") THEN "workflow_coordinator"
             ELSE IF ArrayIncludes(capabilities, "MCP") THEN "data_processor"
             ELSE "general_agent"
      ELSE IF Includes(goalLower, K_communication) \/ Includes(goalLower, K_coordinate)
        THEN IF ArrayIncludes(capabilities, "A2A") THEN "communication_hub"
             ELSE "task_coordinator"
      ELSE IF Includes(goalLower, K_create) \/ Includes(goalLower, K_generate)
        THEN IF ArrayIncludes(capabilities, "MCP") THEN "content_generator"
             ELSE "output_producer"
      ELSE "general_agent"

\* AgentOrchestratorService._distributeTasks(agents, coordinationGoal)
distributeTasks(agentList, coordinationGoal) ==
  [i \in DOMAIN agentList |->
     LET capabilities == Capabilities(agentList[i]) IN
     [agentId |-> agentList[i].id.value,
      tasks |->
        (IF ArrayIncludes(capabilities, "A2A")
           THEN <<"coordinate_with_other_agents", "manage_communication">> ELSE <<>>)
        \o (IF ArrayIncludes(capabilities, "ADK")
              THEN <<"workflow_management", "task_sequencing">> ELSE <<>>)
        \o (IF ArrayIncludes(capabilities, "MCP")
              THEN <<"external_tool_integration", "data_access">> ELSE <<>>)]]

\* the coordinationSteps of every coordination plan
CoordinationSteps ==
  << [id |-> 1, action |-> "initialize_coordination",
      description |-> "Set up communication channels between agents"],
     [id |-> 2, action |-> "assign_roles",
      description |-> "Assign specific roles to each agent"],
     [id |-> 3, action |-> "distribute_tasks",
      description |-> "Assign tasks based on agent capabilities"],
     [id |-> 4, action |-> "monitor_progress",
      description |-> "Track progress across all agents"],
     [id |-> 5, action |-> "integrate_results",
      description |-> "Combine outputs from all agents"],
     [id |-> 6, action |-> "validate_solution",
      description |-> "Verify the coordinated solution"] >>

\* AgentOrchestratorService.createMultiAgentCoordinationPlan(agents, coordinationGoal)
createMultiAgentCoordinationPlan(agentList, coordinationGoal) ==
  [goal |-> coordinationGoal,
   agents |-> [i \in DOMAIN agentList |->
                 [id |-> agentList[i].id.value,
                  name |-> agentList[i].name.value,
                  capabilities |-> Capabilities(agentList[i]),
                  role |-> assignRole(coordinationGoal, agentList[i])]],
   communicationProtocol |-> "a2a",
   taskDistribution |-> distributeTasks(agentList, coordinationGoal),
   coordinationSteps |-> CoordinationSteps]

\* CreateAgenticPlanUseCase._extractToolsFromAgent(agent)
RECURSIVE PushTools(_)
PushTools(configs) ==
  IF configs = <<>> THEN <<>>
  ELSE LET config == Head(configs) IN
       (IF config.frameworkType \in {"MCP", "ADK"} /\ ~Falsy(config.configData.tools)
          THEN config.configData.tools.items ELSE <<>>)
       \o PushTools(Tail(configs))

extractToolsFromAgent(a) ==
  LET tools == PushTools(a.frameworkConfigs) IN
  IF Len(tools) > 0 THEN tools ELSE <<T_general_tools>>

\* _inferFrameworkTypeFromAgent that takes the first framework the agent holds
inferFrameworkTypeFromAgent_firstConfig(a) ==
  IF Len(a.frameworkConfigs) > 0 THEN a.frameworkConfigs[1].frameworkType ELSE "ADK"

\* CreateAgenticPlanUseCase._inferFrameworkTypeFromAgent(agent)
inferFrameworkTypeFromAgent(a) ==
  IF hasFramework(a, "ADK") THEN "ADK"
  ELSE IF hasFramework(a, "A2A") THEN "A2A"
  ELSE IF hasFramework(a, "MCP") THEN "MCP"
  ELSE "ADK"

\* goal.toLowerCase() on a value that is not a string
NotAString(name) ==
  CASE name = "goal" -> Throw("goal.toLowerCase is not a function")
    [] name = "coordinationGoal" -> Throw("coordinationGoal.toLowerCase is not a function")

\* CreateAgenticPlanUseCase.execute(request)
CreateAgenticPlanUseCaseExecute(request, agents, port) ==
  LET forAgent == ~Falsy(request.agentId)
      found == RepositoryFindById(port, agents, request.agentId)
      availableTools ==
        IF forAgent THEN extractToolsFromAgent(found.val)
        ELSE IF Falsy(request.availableTools) THEN <<>>
        ELSE request.availableTools.items
      frameworkType ==
        IF forAgent THEN inferFrameworkTypeFromAgent(found.val)
        ELSE IF Falsy(request.frameworkType) THEN "ADK"
        ELSE request.frameworkType.v
  IN  Execution(
        IF Falsy(request.goal) THEN Done(Fail(<<"Goal is required">>), agents)
        ELSE IF forAgent /\ ~found.ok THEN Raised(found, agents)
        ELSE IF forAgent /\ found.val = Null THEN Done(Fail(<<"Agent not found">>), agents)
        ELSE IF ~IsString(request.goal) THEN Raised(NotAString("goal"), agents)
        ELSE Done([success |-> TRUE,
                   plan |-> createAgenticPlan(request.goal.v, availableTools, frameworkType),
                   message |-> "Agentic plan created successfully"], agents))

\* EvaluateAgentForGoalUseCase.execute(request)
EvaluateAgentForGoalUseCaseExecute(request, agents, port) ==
  LET found == RepositoryFindById(port, agents, request.agentId) IN
  Execution(
    IF Falsy(request.agentId) \/ Falsy(request.goal)
      THEN Done(Fail(<<"Agent ID and goal are required">>), agents)
    ELSE IF ~found.ok THEN Raised(found, agents)
    ELSE IF found.val = Null THEN Done(Fail(<<"Agent not found">>), agents)
    ELSE IF ~IsString(request.goal) THEN Raised(NotAString("goal"), agents)
    ELSE Done([success |-> TRUE,
               evaluation |-> evaluateAgentForGoal(found.val, request.goal.v),
               message |-> "Agent evaluation completed successfully"], agents))

\* `Agent with ID ${agentId} not found` for the ids the model uses
NotFoundMessage(agentId) ==
  CASE agentId = Str("a1") -> "Agent with ID a1 not found"
    [] agentId = Str("a9") -> "Agent with ID a9 not found"

\* the loop of CreateMultiAgentCoordinationUseCase.execute over request.agentIds:
\* the agents found, the first id without an agent, or the repository's error
RECURSIVE FindEach(_, _, _)
FindEach(port, agents, agentIds) ==
  IF agentIds = <<>> THEN Ok([missing |-> FALSE, found |-> <<>>])
  ELSE LET a == RepositoryFindById(port, agents, Head(agentIds))
           rest == FindEach(port, agents, Tail(agentIds))
       IN  IF ~a.ok THEN a
           ELSE IF a.val = Null THEN Ok([missing |-> TRUE, agentId |-> Head(agentIds)])
           ELSE IF ~rest.ok THEN rest
           ELSE IF rest.val.missing THEN rest
           ELSE Ok([missing |-> FALSE, found |-> <<a.val>> \o rest.val.found])

\* CreateMultiAgentCoordinationUseCase.execute(request)
CreateMultiAgentCoordinationUseCaseExecute(request, agents, port) ==
  LET each == FindEach(port, agents, request.agentIds.items) IN
  Execution(
    IF \/ Falsy(request.agentIds)
       \/ request.agentIds.type # "array"
       \/ Len(request.agentIds.items) = 0
      THEN Done(Fail(<<"At least one agent ID is required">>), agents)
    ELSE IF Falsy(request.coordinationGoal)
      THEN Done(Fail(<<"Coordination goal is required">>), agents)
    ELSE IF ~each.ok THEN Raised(each, agents)
    ELSE IF each.val.missing
      THEN Done(Fail(<<NotFoundMessage(each.val.agentId)>>), agents)
    ELSE IF ~IsString(request.coordinationGoal)
      THEN Raised(NotAString("coordinationGoal"), agents)
    ELSE Done([success |-> TRUE,
               coordinationPlan |->
                 createMultiAgentCoordinationPlan(each.val.found,
                                                  request.coordinationGoal.v),
               message |-> "Multi-agent coordination plan created successfully"],
              agents))

\* the goals of the orchestration requests
G_CoordinateWorkflow == JoinWords(<<K_coordinate, K_workflow>>)
G_CreateData == JoinWords(<<K_create, K_data>>)
RequestGoals ==
  {Undefined, Num(5), Text(G_AnalyzeSales), Text(G_CoordinateWorkflow),
   Text(G_CreateData), Text(P_Hi)}

PlanRequests ==
  [goal : RequestGoals, agentId : RequestIds,
   availableTools : {Undefined}, frameworkType : {Undefined}]
  \cup [goal : RequestGoals, agentId : RequestIds,
        availableTools : {Array(<<T_data_processor>>)}, frameworkType : {Str("MCP")}]

EvaluateRequests == [agentId : RequestIds, goal : RequestGoals]

CoordinationRequests ==
  [agentIds : {Undefined, Str("a1"), Array(<<>>), Array(<<Str("a1")>>),
               Array(<<Str("a1"), Str("a1")>>), Array(<<Str("a1"), Str("a9")>>)},
   coordinationGoal : RequestGoals]

\* one execution of CreateAgenticPlanUseCase
ExecuteCreateAgenticPlan ==
  \E request \in PlanRequests :
    LET e == CreateAgenticPlanUseCaseExecute(request, repo, adapter) IN
    /\ uc' = Executed("CreateAgenticPlan", request, e)
    /\ repo' = e.agents
    /\ UNCHANGED <<clock, adapter, payVars, agentVars, svcVars>>

\* one execution of EvaluateAgentForGoalUseCase
ExecuteEvaluateAgentForGoal ==
  \E request \in EvaluateRequests :
    LET e == EvaluateAgentForGoalUseCaseExecute(request, repo, adapter) IN
    /\ uc' = Executed("EvaluateAgentForGoal", request, e)
    /\ repo' = e.agents
    /\ UNCHANGED <<clock, adapter, payVars, agentVars, svcVars>>

\* one execution of CreateMultiAgentCoordinationUseCase
ExecuteCreateMultiAgentCoordination ==
  \E request \in CoordinationRequests :
    LET e == CreateMultiAgentCoordinationUseCaseExecute(request, repo, adapter) IN
    /\ uc' = Executed("CreateMultiAgentCoordination", request, e)
    /\ repo' = e.agents
    /\ UNCHANGED <<clock, adapter, payVars, agentVars, svcVars>>

----------------------------------------------------------------------------
(* AgentOrchestratorService.evaluateAgentForGoal applied to an agent and a  *)
(* goal.                                                                   *)

W_Test == <<"T", "e", "s", "t">>
P_TestAgent == <<"T", "e", "s", "t", " ", "a", "g", "e", "n", "t", " ", "f", "o", "r", " ", "s", "a", "l", "e", "s", " ", "a", "n", "a", "l", "y", "s", "i", "s">>
P_DataTool == <<"d", "a", "t", "a", " ", "t", "o", "o", "l">>
G_PerformDataAnalysis == <<"P", "e", "r", "f", "o", "r", "m", " ", "d", "a", "t", "a", " ", "a", "n", "a", "l", "y", "s", "i", "s">>

\* the words of the goals evaluateAgentForGoal is handed
EvaluationWords ==
  {K_communication, K_coordinate, K_multi_agent, K_workflow, K_process, K_orchestrate,
   K_data, K_tool, K_access, W_Test}

EvaluationGoals ==
  {JoinWords(ws) : ws \in ListsOf(EvaluationWords, MaxWords)} \cup {G_PerformDataAnalysis}

\* the agents evaluateAgentForGoal is handed
EvaluatedAgent(prompt, frameworkConfigs) ==
  AgentRecord(AgentIdNew(Str("a1")).val, AgentNameNew(Text(N_Bot)).val,
              AgentPromptNew(Text(prompt)).val, frameworkConfigs,
              AgentStatusNew(Str("DRAFT")).val, DateTime(0), DateTime(0))

EvaluatedAgents ==
  {EvaluatedAgent(p, l) :
     p \in {P_TestAgent, P_DataTool},
     l \in { <<>>,
             <<Cfg("ADK", 1, Array(<<T_data_processor>>))>>,
             <<Cfg("A2A", 1, Undefined), Cfg("MCP", 1, Undefined)>>,
             <<Cfg("A2A", 1, Undefined), Cfg("ADK", 1, Undefined),
               Cfg("MCP", 1, Undefined)>> }}

\* a caller asks the orchestrator to evaluate an agent for the goal
EvaluateAgentForGoal ==
  \E a \in EvaluatedAgents :
    /\ svc' = [op |-> "evaluateAgentForGoal", agent |-> a,
               res |-> evaluateAgentForGoal(a, input.text)]
    /\ UNCHANGED <<clock, input, payVars, ucVars, agentVars>>

----------------------------------------------------------------------------
(* FrameworkConfigurationAdapter: schema validation of framework            *)
(* configurations.  A configuration is a record with type "object" and the  *)
(* properties it has; a property it lacks reads as undefined.              *)

\* config[key]
Get(config, key) == IF key \in DOMAIN config THEN config[key] ELSE Undefined

\* typeof config === 'object' && config !== null
IsObject(config) == config.type \in {"object", "array"}

\* [...names].includes(x)
OneOf(x, names) == x.type = "string" /\ x.v \in names

\* the largest port _validateA2AConfiguration accepts
MaxPort == 65535
\* the context_window of the MCP defaults
DefaultContextWindow == 4096
\* the port of the A2A defaults
DefaultPort == 8080

V_chat == <<"c", "h", "a", "t">>
V_task_execution == <<"t", "a", "s", "k", "-", "e", "x", "e", "c", "u", "t", "i", "o", "n">>
V_collaboration == <<"c", "o", "l", "l", "a", "b", "o", "r", "a", "t", "i", "o", "n">>
V_database == <<"d", "a", "t", "a", "b", "a", "s", "e">>
V_web == <<"w", "e", "b">>
V_files == <<"f", "i", "l", "e", "s">>
V_databases == <<"d", "a", "t", "a", "b", "a", "s", "e", "s">>
V_apis == <<"a", "p", "i", "s">>

DefaultCapabilities == Array(<<V_chat, V_task_execution, V_collaboration>>)
DefaultMcpTools == Array(<<T_filesystem, V_database, V_web>>)
DefaultMcpResources == Array(<<V_files, V_databases, V_apis>>)

\* errors.push(message) when the condition holds
PushIf(condition, message) == IF condition THEN <<message>> ELSE <<>>

\* FrameworkConfigurationAdapter._validateA2AConfiguration(config)
validateA2AConfiguration(config) ==
  IF ~IsObject(config)
    THEN [success |-> FALSE, errors |-> <<"A2A configuration must be an object">>]
  ELSE
    LET name == Get(config, "name")
        discovery == Get(config, "discovery")
        port == Get(config, "port")
        security == Get(config, "security")
        capabilities == Get(config, "capabilities")
        errors ==
          PushIf(Falsy(name), "A2A configuration requires \"name\" property")
          \o PushIf(Falsy(discovery) \/ ~OneOf(discovery, {"multicast", "registry", "static"}),
                    "A2A discovery must be one of: multicast, registry, static")
          \o PushIf(Falsy(port) \/ ~IsNumber(port) \/ port.v < 1 \/ port.v > MaxPort,
                    "A2A port must be a number between 1 and 65535")
          \o PushIf(Falsy(security) \/ ~OneOf(security, {"tls", "mutual", "none"}),
                    "A2A security must be one of: tls, mutual, none")
          \o PushIf(~Falsy(capabilities) /\ capabilities.type # "array",
                    "A2A capabilities must be an array")
    IN  IF Len(errors) > 0 THEN [success |-> FALSE, errors |-> errors]
        ELSE [success |-> TRUE,
              config |-> [type |-> "object", name |-> name, discovery |-> discovery,
                          port |-> port, security |-> security,
                          capabilities |-> IF Falsy(capabilities) THEN DefaultCapabilities
                                           ELSE capabilities]]

\* FrameworkConfigurationAdapter._validateADKConfiguration(config)
validateADKConfiguration(config) ==
  IF ~IsObject(config)
    THEN [success |-> FALSE, errors |-> <<"ADK configuration must be an object">>]
  ELSE
    LET workflow == Get(config, "workflow")
        environment == Get(config, "environment")
        retry == Get(config, "retry")
        resources == Get(config, "resources")
        tools == Get(config, "tools")
        errors ==
          PushIf(Falsy(workflow)
                   \/ ~OneOf(workflow, {"sequential", "parallel", "conditional", "event-driven"}),
                 "ADK workflow must be one of: sequential, parallel, conditional, event-driven")
          \o PushIf(Falsy(environment)
                      \/ ~OneOf(environment, {"local", "container", "serverless", "distributed"}),
                    "ADK environment must be one of: local, container, serverless, distributed")
          \o PushIf(Falsy(retry)
                      \/ ~OneOf(retry, {"exponential", "linear", "immediate", "none"}),
                    "ADK retry must be one of: exponential, linear, immediate, none")
          \o PushIf(~Falsy(resources) /\ ~IsString(resources), "ADK resources must be a string")
          \o PushIf(~Falsy(tools) /\ tools.type # "array", "ADK tools must be an array")
    IN  IF Len(errors) > 0 THEN [success |-> FALSE, errors |-> errors]
        ELSE [success |-> TRUE,
              config |-> [type |-> "object", workflow |-> workflow,
                          environment |-> environment,
                          resources |-> IF Falsy(resources) THEN Str("CPU: 1, Memory: 512MB")
                                        ELSE resources,
                          retry |-> retry,
                          tools |-> IF Falsy(tools) THEN Array(<<T_general_tools>>)
                                    ELSE tools]]

\* FrameworkConfigurationAdapter._validateMCPConfiguration(config)
validateMCPConfiguration(config) ==
  IF ~IsObject(config)
    THEN [success |-> FALSE, errors |-> <<"MCP configuration must be an object">>]
  ELSE
    LET server == Get(config, "server")
        context_window == Get(config, "context_window")
        tools == Get(config, "tools")
        resources == Get(config, "resources")
        errors ==
          PushIf(Falsy(server) \/ ~OneOf(server, {"stdio", "websocket", "http", "grpc"}),
                 "MCP server must be one of: stdio, websocket, http, grpc")
          \o PushIf(~IsNumber(context_window) \/ Le0(context_window),
                    "MCP context_window must be a positive number")
          \o PushIf(~Falsy(tools) /\ tools.type # "array", "MCP tools must be an array")
          \o PushIf(~Falsy(resources) /\ resources.type # "array",
                    "MCP resources must be an array")
    IN  IF Len(errors) > 0 THEN [success |-> FALSE, errors |-> errors]
        ELSE [success |-> TRUE,
              config |-> [type |-> "object", server |-> server,
                          tools |-> IF tools.type = "array" THEN tools ELSE DefaultMcpTools,
                          resources |-> IF resources.type = "array" THEN resources
                                        ELSE DefaultMcpResources,
                          context_window |-> context_window]]

\* the _validate<Framework>Configuration method of a valid framework type
ValidateFor(frameworkType, config) ==
  CASE frameworkType = "A2A" -> validateA2AConfiguration(config)
    [] frameworkType = "ADK" -> validateADKConfiguration(config)
    [] frameworkType = "MCP" -> validateMCPConfiguration(config)

\* `Invalid framework type: ${frameworkType}` for the types the model uses
InvalidTypeMessage(frameworkType) ==
  IF frameworkType = "XYZ" THEN "Invalid framework type: XYZ" ELSE "Invalid framework type"

\* frameworkType.toUpperCase() on a value that is not a string
NoToUpperCase(frameworkType) ==
  IF frameworkType.type \in {"undefined", "null"}
    THEN "Cannot read properties of undefined (reading 'toUpperCase')"
    ELSE "frameworkType.toUpperCase is not a function"

\* FrameworkConfigurationAdapter.validateConfiguration(frameworkType, config)
validateConfiguration(frameworkType, config) ==
  IF ~IsString(frameworkType)
    THEN [success |-> FALSE, errors |-> <<NoToUpperCase(frameworkType)>>]
  ELSE IF ToUpperCase(frameworkType.v) \notin FrameworkTypes
    THEN [success |-> FALSE, errors |-> <<InvalidTypeMessage(frameworkType.v)>>]
  ELSE ValidateFor(ToUpperCase(frameworkType.v), config)

\* _applyA2AConfiguration / _applyADKConfiguration / _applyMCPConfiguration
applyFor(frameworkType, config) ==
  LET validatedConfig == ValidateFor(frameworkType, config) IN
  IF ~validatedConfig.success
    THEN [success |-> FALSE, errors |-> validatedConfig.errors]
    ELSE [success |-> TRUE, config |-> validatedConfig.config,
          message |-> CASE frameworkType = "A2A" -> "A2A configuration applied successfully"
                        [] frameworkType = "ADK" -> "ADK configuration applied successfully"
                        [] frameworkType = "MCP" -> "MCP configuration applied successfully"]

\* FrameworkConfigurationAdapter.applyConfiguration(frameworkType, config)
applyConfiguration(frameworkType, config) ==
  IF ~IsString(frameworkType)
    THEN [success |-> FALSE, error |-> NoToUpperCase(frameworkType)]
  ELSE IF ToUpperCase(frameworkType.v) \notin FrameworkTypes
    THEN [success |-> FALSE, error |-> InvalidTypeMessage(frameworkType.v)]
  ELSE applyFor(ToUpperCase(frameworkType.v), config)

\* the configurations handed to the adapter
A2AConfigs ==
  [type : {"object"},
   name : {Str("agent"), Str(""), Undefined},
   discovery : {Str("multicast"), Str("broadcast"), Undefined},
   port : {Num(0), Num(1), Num(MaxPort), Num(MaxPort + 1), NaN, Str("8080")},
   security : {Str("tls"), Str("ssl")},
   capabilities : {Undefined, Array(<<V_chat>>), Str("chat")}]

ADKConfigs ==
  [type : {"object"},
   workflow : {Str("sequential"), Str("loop"), Undefined},
   environment : {Str("local"), Str("cloud")},
   retry : {Str("none"), Str("never"), Undefined},
   resources : {Undefined, Str("CPU: 2"), Num(2)},
   tools : {Undefined, Array(<<T_data_processor>>), Str("data_processor")}]

MCPConfigs ==
  [type : {"object"},
   server : {Str("stdio"), Str("ftp"), Undefined},
   context_window : {Num(DefaultContextWindow), Num(0), Num(-1), NaN, Undefined, Str("4096")},
   tools : {Undefined, Array(<<T_filesystem>>), Str("filesystem")},
   resources : {Undefined, Array(<<V_files>>)}]

\* the (frameworkType, config) arguments handed to the adapter
AdapterInputs ==
  [frameworkType : {Str("A2A")}, config : A2AConfigs]
  \cup [frameworkType : {Str("ADK")}, config : ADKConfigs]
  \cup [frameworkType : {Str("MCP"), Str("mcp")}, config : MCPConfigs]
  \cup [frameworkType : {Str("A2A"), Str("ADK"), Str("MCP"), Str("XYZ"), Undefined},
        config : {Null, Str("config"), [type |-> "object"]}]

\* a caller validates a configuration, twice
ValidateConfiguration ==
  /\ svc' = [op |-> "validateConfiguration",
             res |-> validateConfiguration(input.frameworkType, input.config),
             again |-> validateConfiguration(input.frameworkType, input.config)]
  /\ UNCHANGED <<clock, input, payVars, ucVars, agentVars>>

\* a caller applies a configuration
ApplyConfiguration ==
  /\ svc' = [op |-> "applyConfiguration",
             res |-> applyConfiguration(input.frameworkType, input.config)]
  /\ UNCHANGED <<clock, input, payVars, ucVars, agentVars>>

----------------------------------------------------------------------------
(* AgentDomainService.createAgentFromTemplate.                             *)

N_TemplateAgent == <<"T", "e", "m", "p", "l", "a", "t", "e", " ", "A", "g", "e", "n", "t">>
N_GeneratedAgent == <<"G", "e", "n", "e", "r", "a", "t", "e", "d", " ", "A", "g", "e", "n", "t">>
T_test_tool == <<"t", "e", "s", "t", "_", "t", "o", "o", "l">>

\* t.replace(/_/g, ' ')
ReplaceUnderscores(t) == [i \in DOMAIN t |-> IF t[i] = "_" THEN " " ELSE t[i]]

\* defaultConfigs[framework] || {} in createAgentFromTemplate
DefaultConfig(framework, template) ==
  CASE framework = Str("A2A") ->
         [type |-> "object",
          name |-> IF Falsy(template.name) THEN Text(N_GeneratedAgent) ELSE template.name,
          discovery |-> Str("multicast"),
          port |-> Num(DefaultPort),
          security |-> Str("tls"),
          capabilities |-> DefaultCapabilities]
    [] framework = Str("ADK") ->
         [type |-> "object",
          workflow |-> Str("sequential"),
          environment |-> Str("local"),
          resources |-> Str("CPU: 1, Memory: 512MB"),
          retry |-> Str("exponential"),
          tools |-> IF Falsy(template.tools) THEN Array(<<T_general_tools>>)
                    ELSE template.tools]
    [] framework = Str("MCP") ->
         [type |-> "object",
          server |-> Str("stdio"),
          tools |-> IF template.tools.type = "array"
                      THEN Array([i \in DOMAIN template.tools.items |->
                                    ReplaceUnderscores(template.tools.items[i])])
                      ELSE DefaultMcpTools,
          resources |-> DefaultMcpResources,
          context_window |-> Num(DefaultContextWindow)]
    [] OTHER -> [type |-> "object"]

\* template.frameworks.map(framework => new FrameworkConfig(framework,
\* defaultConfigs[framework] || {})): the value objects, or the first error thrown
RECURSIVE MapTemplateFrameworks(_, _)
MapTemplateFrameworks(frameworks, template) ==
  IF frameworks = <<>> THEN Ok(<<>>)
  ELSE LET head == FrameworkConfigNew(frameworks[1], DefaultConfig(frameworks[1], template)) IN
       IF ~head.ok THEN head
       ELSE LET rest == MapTemplateFrameworks(Tail(frameworks), template) IN
            IF ~rest.ok THEN rest ELSE Ok(<<head.val>> \o rest.val)

\* AgentDomainService.createAgentFromTemplate(template)
createAgentFromTemplate(gid, template, now, h) ==
  LET agentId == AgentIdNew(Str(gid))
      agentName == AgentNameNew(IF Falsy(template.name) THEN Text(N_TemplateAgent)
                                ELSE template.name)
      agentPrompt == AgentPromptNew(template.prompt)
      status == AgentStatusNew(Str("CONFIGURED"))
      createdAt == DateTimeNow(now)
      frameworkConfigs ==
        IF template.frameworks.type # "array"
          THEN Throw("Cannot read properties of undefined (reading 'map')")
          ELSE MapTemplateFrameworks(template.frameworks.items, template)
  IN  IF ~agentId.ok THEN agentId
      ELSE IF ~agentName.ok THEN agentName
      ELSE IF ~agentPrompt.ok THEN agentPrompt
      ELSE IF ~status.ok THEN status
      ELSE IF ~frameworkConfigs.ok THEN frameworkConfigs
      ELSE AgentNew(agentId.val, agentName.val, agentPrompt.val, frameworkConfigs.val,
                    status.val, createdAt, createdAt, h)

\* the templates handed to createAgentFromTemplate
Templates ==
  [name : {Text(N_Bot), Undefined},
   prompt : {Text(P_Hi), Undefined},
   frameworks : {Array(<<Str("A2A"), Str("MCP")>>), Array(<<Str("ADK")>>),
                 Array(<<Str("A2A"), Str("ADK"), Str("MCP")>>), Array(<<>>),
                 Array(<<Str("XYZ")>>), Undefined},
   tools : {Undefined, Array(<<T_test_tool>>)}]

\* a caller builds an agent from a template
CreateAgentFromTemplate ==
  \E template \in Templates :
    LET r == createAgentFromTemplate("agent_1", template, clock, host) IN
    /\ alast' = [op |-> "createAgentFromTemplate", args |-> template,
                 recv |-> Null, this |-> Null, res |-> r]
    /\ agent' = IF r.ok THEN r.val ELSE agent
    /\ UNCHANGED <<clock, host, payVars, ucVars, svcVars>>

----------------------------------------------------------------------------
(* Specifications.                                                         *)

\* the parts a specification does not exercise stay as constructed
IdlePayment == pay = Null /\ last = NoCall /\ hist = <<>> /\ origin = "none"
IdleUseCases ==
  /\ repo = [id \in StoredIds |-> Null]
  /\ adapter = "InMemoryAgentRepository"
  /\ uc = NoUseCase
IdleAgent == agent = Null /\ alast = NoAgentCall /\ host = "node"
IdleService == input = NoInput /\ svc = NoServiceCall

\* the Payment aggregate and its status machine
Init == clock = 0 /\ IdlePayment /\ IdleUseCases /\ IdleAgent /\ IdleService

Next ==
  \/ Tick
  \/ NewPayment
  \/ CreatePayment
  \/ Authorize
  \/ Capture
  \/ MarkAsFailed
  \/ Refund
  \/ Cancel

Spec == Init /\ [][Next]_vars

\* the payment use cases over a repository of stored agents
InitUC ==
  /\ clock = 0
  /\ IdlePayment
  /\ repo \in [StoredIds -> {StoredAgent("a1", l) : l \in StoredConfigLists} \cup {Null}]
  /\ adapter = "InMemoryAgentRepository"
  /\ uc = NoUseCase
  /\ IdleAgent
  /\ IdleService

NextUC ==
  \/ ExecuteCreatePayment
  \/ ExecuteProcessAgentPayment

SpecUC == InitUC /\ [][NextUC]_vars

\* the Agent aggregate: constructor, factory and mutators
InitAgent ==
  /\ clock = 0
  /\ IdlePayment
  /\ IdleUseCases
  /\ agent \in ReceiverAgents
  /\ alast = NoAgentCall
  /\ host \in {"node", "browser"}
  /\ IdleService

NextAgent ==
  \/ NewAgent
  \/ CreateAgent
  \/ UpdateName
  \/ UpdatePrompt
  \/ AddFrameworkConfig
  \/ RemoveFrameworkConfig
  \/ ChangeStatus
  \/ GenerateConfiguration
  \/ CreateAgentFromTemplate

SpecAgent == InitAgent /\ [][NextAgent]_vars

\* the configurations of the agent stored when an agent use case runs
AppConfigLists ==
  { <<>>,
    <<Cfg("A2A", 1, Undefined), Cfg("MCP", 1, Array(<<T_my_finance>>))>>,
    <<Cfg("MCP", 1, Array(<<T_filesystem>>)), Cfg("ADK", 1, Array(<<T_payment_api>>))>>,
    <<Cfg("MCP", 1, Array(<<T_data_processor, T_my_finance>>))>> }

\* the agent use cases over a repository of stored agents
InitApp ==
  /\ clock = 0
  /\ IdlePayment
  /\ adapter \in RepositoryPorts
  /\ repo \in IF adapter = "AgentRepositoryPort"
               THEN {[id \in StoredIds |-> Null]}
               ELSE [StoredIds -> {StoredAgent("a1", l) : l \in AppConfigLists} \cup {Null}]
  /\ uc = NoUseCase
  /\ agent = Null
  /\ alast = NoAgentCall
  /\ host \in {"node", "browser"}
  /\ IdleService

NextApp ==
  \/ ExecuteCreateAgent
  \/ ExecuteUpdateAgent
  \/ ExecuteGetAgent
  \/ ExecuteListAgents
  \/ ExecuteDeleteAgent
  \/ ExecuteConfigureAgentFrameworks
  \/ ExecuteCreateAgenticPlan
  \/ ExecuteEvaluateAgentForGoal
  \/ ExecuteCreateMultiAgentCoordination
  \/ ExecuteCreatePayment
  \/ ExecuteProcessAgentPayment

SpecApp == InitApp /\ [][NextApp]_vars

----------------------------------------------------------------------------
(* Two executions of UpdateAgentUseCase / ConfigureAgentFrameworksUseCase   *)
(* in flight on one repository.  An execution runs up to its first await    *)
(* when it is called (findById reads the map then), resumes with the agent  *)
(* it read, derives and saves in one synchronous stretch, and settles after *)
(* `await this.agentRepository.save(...)`.  uc maps each execution to its    *)
(* position and locals.                                                     *)

Executions == {1, 2}
Other(e) == 3 - e

NoRun ==
  [name |-> "none", request |-> Undefined, pc |-> "idle", existingAgent |-> NotReached,
   raced |-> FALSE, result |-> Fail(<<>>)]

\* the requests of the interleaved executions
RaceRequests(name) ==
  IF name = "UpdateAgent"
    THEN [id : {Str("a1")}, name : {Undefined, Text(N_Ann)},
          prompt : {Undefined, Text(P_Plan)}, frameworkConfigs : {Undefined}]
    ELSE [id : {Str("a1")},
          frameworkConfigs : {Array(<<>>),
                              Array(<<[frameworkType |-> Str("A2A"),
                                       configData |-> ConfigData(2, Undefined)]>>)}]

\* execute(request) is called: it runs to `await this.agentRepository.findById(...)`
CallExecute(e) ==
  /\ uc[e].pc = "idle"
  /\ \E name \in {"UpdateAgent", "ConfigureAgentFrameworks"} :
       \E request \in RaceRequests(name) :
         uc' = [uc EXCEPT ![e] =
                  [name |-> name, request |-> request, pc |-> "found",
                   existingAgent |-> RepositoryFindById(adapter, repo, request.id),
                   raced |-> FALSE, result |-> Fail(<<>>)]]
  /\ UNCHANGED <<clock, repo, adapter, payVars, agentVars, svcVars>>

\* the execution resumes after findById: it derives the updated agent, validates
\* it and calls save, or leaves through a return or the catch block; `raced` notes
\* that the other execution had read and not yet resumed
ResumeExecute(e) ==
  /\ uc[e].pc = "found"
  /\ LET run == uc[e]
         b == IF run.name = "UpdateAgent"
                THEN UpdateAgentAfterFind(run.request, run.existingAgent, repo,
                                          adapter, clock, host)
                ELSE ConfigureAgentFrameworksAfterFind(run.request, run.existingAgent, repo,
                                                       adapter, clock, host)
     IN  /\ uc' = [uc EXCEPT ![e].pc = "saved", ![e].result = b.settled.val,
                             ![e].raced = (uc[Other(e)].pc = "found")]
         /\ repo' = b.agents
  /\ UNCHANGED <<clock, adapter, payVars, agentVars, svcVars>>

\* the promise of execute settles with the result
SettleExecute(e) ==
  /\ uc[e].pc = "saved"
  /\ uc' = [uc EXCEPT ![e].pc = "settled"]
  /\ UNCHANGED <<clock, repo, adapter, payVars, agentVars, svcVars>>

InitRace ==
  /\ clock = 0
  /\ IdlePayment
  /\ adapter = "InMemoryAgentRepository"
  /\ repo \in [StoredIds -> {StoredAgent("a1", l) : l \in AppConfigLists}]
  /\ uc = [e \in Executions |-> NoRun]
  /\ agent = Null
  /\ alast = NoAgentCall
  /\ host \in {"node", "browser"}
  /\ IdleService

NextRace ==
  \E e \in Executions :
    \/ CallExecute(e)
    \/ ResumeExecute(e)
    \/ SettleExecute(e)

SpecRace == InitRace /\ [][NextRace]_vars

\* AgentDomainService.recommendFrameworks applied to a prompt
InitRecommend ==
  /\ clock = 0
  /\ IdlePayment
  /\ IdleUseCases
  /\ IdleAgent
  /\ input \in [text : Prompts, tools : {<<>>}, frameworkType : {"ADK"}]
  /\ svc = NoServiceCall

NextRecommend ==
  \/ RecommendFrameworks

SpecRecommend == InitRecommend /\ [][NextRecommend]_vars

\* AgentOrchestratorService.evaluateAgentForGoal applied to an agent and a goal
InitEvaluate ==
  /\ clock = 0
  /\ IdlePayment
  /\ IdleUseCases
  /\ IdleAgent
  /\ input \in [text : EvaluationGoals, tools : {<<>>}, frameworkType : {"ADK"}]
  /\ svc = NoServiceCall

NextEvaluate ==
  \/ EvaluateAgentForGoal

SpecEvaluate == InitEvaluate /\ [][NextEvaluate]_vars

\* FrameworkConfigurationAdapter applied to a framework type and a configuration
InitAdapter ==
  /\ clock = 0
  /\ IdlePayment
  /\ IdleUseCases
  /\ IdleAgent
  /\ input \in AdapterInputs
  /\ svc = NoServiceCall

NextAdapter ==
  \/ ValidateConfiguration
  \/ ApplyConfiguration

SpecAdapter == InitAdapter /\ [][NextAdapter]_vars

\* the planning functions applied to a goal and a list of available tools
InitPlan ==
  /\ clock = 0
  /\ IdlePayment
  /\ IdleUseCases
  /\ IdleAgent
  /\ input \in [text : Goals, tools : ToolLists, frameworkType : {"ADK"}]
  /\ svc = NoServiceCall

NextPlan ==
  \/ CreateAgenticPlan
  \/ CreatePaymentProcessingPlan

SpecPlan == InitPlan /\ [][NextPlan]_vars

----------------------------------------------------------------------------
(* Properties of the Payment status machine (specification Spec).          *)

C1_Source(op) ==
  CASE op = "authorize" -> "PENDING"
    [] op = "capture" -> "AUTHORIZED"
    [] op = "refund" -> "CAPTURED"
    [] op = "cancel" -> "PENDING"

C1_Target(op) ==
  CASE op = "authorize" -> "AUTHORIZED"
    [] op = "capture" -> "CAPTURED"
    [] op = "refund" -> "REFUNDED"
    [] op = "cancel" -> "CANCELLED"

\* C1: authorize, capture, refund and cancel succeed exactly from PENDING,
\* AUTHORIZED, CAPTURED and PENDING, and then return a payment in AUTHORIZED,
\* CAPTURED, REFUNDED and CANCELLED; from every other status the call throws an
\* error and returns no aggregate.
C1_GuardedTransitions ==
  last.op \in {"authorize", "capture", "refund", "cancel"} =>
    /\ last.res.ok <=> (last.recv.status.value = C1_Source(last.op))
    /\ last.res.ok =>
         /\ last.res.val.type = "Payment"
         /\ last.res.val.status.value = C1_Target(last.op)
    /\ ~last.res.ok => last.res.val.type = "Error"

\* C1 witness: a payment was authorized and the second authorize was rejected
C1_Witness ==
  /\ hist = <<"PENDING", "AUTHORIZED">>
  /\ last.op = "authorize"
  /\ last.recv.status.value = "AUTHORIZED"
  /\ ~last.res.ok

TerminalStatuses == {"FAILED", "REFUNDED", "CANCELLED"}

\* C2: FAILED, REFUNDED and CANCELLED are terminal: every transition called on a
\* payment in one of these statuses fails, and the payment the caller holds
\* afterwards still has that status.
C2_TerminalStatesAreFinal ==
  (last.op \in TransitionOps /\ last.recv.status.value \in TerminalStatuses) =>
    /\ ~last.res.ok
    /\ pay.status.value = last.recv.status.value

\* C3: markAsFailed is rejected on a CAPTURED payment and succeeds on a PENDING or
\* AUTHORIZED payment, returning a payment whose status is FAILED.
C3_MarkAsFailed ==
  last.op = "markAsFailed" =>
    /\ last.recv.status.value = "CAPTURED" =>
         (~last.res.ok /\ last.res.val.type = "Error")
    /\ last.recv.status.value \in {"PENDING", "AUTHORIZED"} =>
         (last.res.ok /\ last.res.val.type = "Payment"
                      /\ last.res.val.status.value = "FAILED")

\* C3 witness: markAsFailed was rejected on a payment that had been captured
C3_Witness ==
  /\ hist = <<"PENDING", "AUTHORIZED", "CAPTURED">>
  /\ last.op = "markAsFailed"
  /\ ~last.res.ok
  /\ pay.status.value = "CAPTURED"

\* C4: a transition never changes the aggregate it is called on; when it succeeds
\* the aggregate it returns has the receiver's id, amount, method, description,
\* recipient and createdAt; when it fails the caller is left with the receiver.
C4_TransitionsCopy ==
  last.op \in TransitionOps =>
    /\ last.this = last.recv
    /\ last.res.ok =>
         /\ last.res.val.type = "Payment"
         /\ last.res.val.id = last.recv.id
         /\ last.res.val.amount = last.recv.amount
         /\ last.res.val.method = last.recv.method
         /\ last.res.val.description = last.recv.description
         /\ last.res.val.recipient = last.recv.recipient
         /\ last.res.val.createdAt = last.recv.createdAt
         /\ pay = last.res.val
    /\ ~last.res.ok => pay = last.recv

\* C4 witness: capture returned a CAPTURED payment and the receiver is still AUTHORIZED
C4_Witness ==
  /\ last.op = "capture"
  /\ last.res.ok
  /\ last.this.status.value = "AUTHORIZED"
  /\ pay.status.value = "CAPTURED"

----------------------------------------------------------------------------
(* Properties of the payment use cases (specification SpecUC).             *)

\* the amount of the request of the last execution
RequestAmount ==
  IF uc.name = "CreatePayment" THEN uc.request.amount
  ELSE IF uc.name = "ProcessAgentPayment" /\ uc.request.paymentDetails # Undefined
    THEN uc.request.paymentDetails.amount
  ELSE Undefined

\* C5: no Payment with an amount <= 0 is constructed or handed to the processor,
\* and a request whose amount is <= 0 ends in success:false with no payment and
\* no processPayment call.
C5_NonPositiveAmountRejected ==
  uc.name # "none" =>
    /\ uc.created.ok => ~Le0(uc.created.val.amount.amount)
    /\ \A i \in DOMAIN uc.calls : ~Le0(uc.calls[i].amount.amount)
    /\ Le0(RequestAmount) =>
         /\ ~uc.result.success
         /\ uc.result.payment = Null
         /\ ~uc.created.ok
         /\ uc.calls = <<>>

\* C5 witness: an amount of 0 passed the capability gate and was refused by the
\* Payment constructor
C5_Witness ==
  /\ uc.name = "ProcessAgentPayment"
  /\ RequestAmount = Num(0)
  /\ uc.created =
       Throw("Payment amount must be a positive instance of PaymentAmount value object")
  /\ ~uc.result.success
  /\ uc.calls = <<>>

\* the request of the last execution names an agent
AgentGiven == uc.name # "none" /\ ~Falsy(uc.request.agentId)

\* the agent the request names is stored
AgentFound ==
  /\ AgentGiven
  /\ uc.request.agentId.v \in DOMAIN repo
  /\ repo[uc.request.agentId.v] # Null

\* an agent with an MCP config that declares a payment, finance or transaction tool
C6_Capable(a) ==
  \E c \in DOMAIN a.frameworkConfigs :
    /\ a.frameworkConfigs[c].frameworkType = "MCP"
    /\ a.frameworkConfigs[c].configData.tools # Undefined
    /\ \E i \in DOMAIN a.frameworkConfigs[c].configData.tools.items :
         \E k \in {K_payment, K_finance, K_transaction} :
           Includes(a.frameworkConfigs[c].configData.tools.items[i], k)

\* C6: in ProcessAgentPaymentUseCase, and in CreatePaymentUseCase when an agentId is
\* given, processPayment is invoked only for a stored agent that has an MCP config
\* declaring a payment, finance or transaction tool; otherwise the result is
\* success:false and no payment is created or processed.
C6_CapabilityGate ==
  (uc.name = "ProcessAgentPayment" \/ (uc.name = "CreatePayment" /\ AgentGiven)) =>
    /\ uc.calls # <<>> => (AgentFound /\ C6_Capable(repo[uc.request.agentId.v]))
    /\ ~(AgentFound /\ C6_Capable(repo[uc.request.agentId.v])) =>
         /\ ~uc.result.success
         /\ uc.result.payment = Null
         /\ ~uc.created.ok
         /\ uc.calls = <<>>

\* C6 witness: a payment was processed on behalf of a capable stored agent
C6_Witness ==
  /\ uc.name = "ProcessAgentPayment"
  /\ AgentFound
  /\ C6_Capable(repo[uc.request.agentId.v])
  /\ uc.result.success
  /\ Len(uc.calls) = 1

----------------------------------------------------------------------------
(* Properties of the Agent aggregate (specification SpecAgent).            *)

\* every argument of the constructor is an instance of its value-object type
C7_ValidArgs(a) ==
  /\ a.id.type = "AgentId"
  /\ a.name.type = "AgentName"
  /\ a.prompt.type = "AgentPrompt"
  /\ \A i \in DOMAIN a.frameworkConfigs : a.frameworkConfigs[i].type = "FrameworkConfig"
  /\ a.status.type = "AgentStatus"
  /\ a.createdAt.type = "DateTime"
  /\ a.updatedAt.type = "DateTime"

\* C7: new Agent(...) on value objects of the right types returns an aggregate
\* whose getters return the supplied values, and it is rejected only when some
\* argument is not an instance of its type.
C7_ConstructionSucceeds ==
  alast.op = "new" =>
    /\ C7_ValidArgs(alast.args) =>
         /\ alast.res.ok
         /\ alast.res.val.id = alast.args.id
         /\ alast.res.val.name = alast.args.name
         /\ alast.res.val.prompt = alast.args.prompt
         /\ alast.res.val.frameworkConfigs = alast.args.frameworkConfigs
         /\ alast.res.val.status = alast.args.status
         /\ alast.res.val.createdAt = alast.args.createdAt
         /\ alast.res.val.updatedAt = alast.args.updatedAt
    /\ ~alast.res.ok => ~C7_ValidArgs(alast.args)

\* the frameworkTypes of a list of plain config objects, as FrameworkConfig stores them
C8_SuppliedTypes(plain) == {ToUpperCase(plain[i].frameworkType.v) : i \in DOMAIN plain}

\* the last config of the type in a list of plain config objects
C8_LastOfType(plain, t) ==
  LET hits == {i \in DOMAIN plain : ToUpperCase(plain[i].frameworkType.v) = t}
      i == CHOOSE k \in hits : \A j \in hits : k >= j
  IN  FrameworkConfigNew(plain[i].frameworkType, plain[i].configData).val

\* C8: for a valid name, prompt and list of configs, createAgent returns a DRAFT
\* agent with one config per distinct frameworkType supplied, the last one
\* supplied of each type.
C8_CreateAgentDedups ==
  ( /\ alast.op = "createAgent"
    /\ AgentNameNew(alast.args.name).ok
    /\ AgentPromptNew(alast.args.prompt).ok
    /\ MapFrameworkConfigs(alast.args.frameworkConfigs).ok ) =>
    /\ alast.res.ok
    /\ alast.res.val.status.value = "DRAFT"
    /\ Len(alast.res.val.frameworkConfigs)
         = Cardinality(C8_SuppliedTypes(alast.args.frameworkConfigs))
    /\ \A t \in C8_SuppliedTypes(alast.args.frameworkConfigs) :
         getFrameworkConfig(alast.res.val, t)
           = C8_LastOfType(alast.args.frameworkConfigs, t)

\* C9: every agent reached by the mutators has at most one config per
\* frameworkType, and addFrameworkConfig of a type already present returns an
\* agent whose list has the same length and holds the new config in that place.
C9_UniqueFrameworks ==
  /\ UniqueByType(agent.frameworkConfigs)
  /\ ( /\ alast.op = "addFrameworkConfig"
       /\ alast.args.x.type = "FrameworkConfig"
       /\ hasFramework(alast.recv, alast.args.x.frameworkType) ) =>
       /\ alast.res.ok
       /\ UniqueByType(alast.res.val.frameworkConfigs)
       /\ Len(alast.res.val.frameworkConfigs) = Len(alast.recv.frameworkConfigs)
       /\ getFrameworkConfig(alast.res.val, alast.args.x.frameworkType) = alast.args.x

\* C10: a.addFrameworkConfig(x) returns an agent that has x's framework and every
\* framework a had, and leaves a as it was.
C10_AddThenHas ==
  (alast.op = "addFrameworkConfig" /\ alast.args.x.type = "FrameworkConfig") =>
    /\ alast.res.ok
    /\ hasFramework(alast.res.val, alast.args.x.frameworkType)
    /\ \A t \in TypesOf(alast.recv.frameworkConfigs) : hasFramework(alast.res.val, t)
    /\ alast.this = alast.recv
    /\ agent = alast.res.val

\* C11: generateConfiguration() returns an object whose keys are exactly `agent`
\* plus the lower-case key (a2a, adk, mcp) of every framework the agent has
\* configured, each key holding that framework's config data.
C11_KeyOf(t) ==
  CASE t = "A2A" -> "a2a" [] t = "ADK" -> "adk" [] t = "MCP" -> "mcp"

C11_ConfigurationKeys ==
  alast.op = "generateConfiguration" =>
    /\ alast.res.ok
    /\ DOMAIN alast.res.val =
         {"agent"} \cup {C11_KeyOf(t) : t \in TypesOf(alast.recv.frameworkConfigs)}
    /\ \A i \in DOMAIN alast.recv.frameworkConfigs :
         LET c == alast.recv.frameworkConfigs[i] IN
         /\ C11_KeyOf(c.frameworkType) \in DOMAIN alast.res.val
         /\ alast.res.val[C11_KeyOf(c.frameworkType)] = c.configData

\* C12: changeStatus enforces no transition graph: called with an AgentStatus it
\* succeeds from any current status and returns an agent in the requested status;
\* it fails only when the argument is not an AgentStatus.
C12_ChangeStatusUnrestricted ==
  alast.op = "changeStatus" =>
    /\ alast.res.ok <=> alast.args.x.type = "AgentStatus"
    /\ alast.res.ok => alast.res.val.status = alast.args.x

\* C13 (payments): a payment built by createPayment has createdAt = updatedAt, and
\* every transition of such a payment keeps createdAt and leaves updatedAt >= createdAt.
C13_PaymentTimestamps ==
  /\ (last.op = "createPayment" /\ last.res.ok) =>
       last.res.val.createdAt = last.res.val.updatedAt
  /\ (last.op \in TransitionOps /\ origin = "createPayment" /\ last.res.ok) =>
       /\ last.res.val.createdAt = last.recv.createdAt
       /\ last.res.val.updatedAt.t >= last.res.val.createdAt.t
  /\ (pay # Null /\ origin = "createPayment") => pay.updatedAt.t >= pay.createdAt.t

\* the argument of an Agent mutator call is one the mutator accepts
C13_ValidMutation ==
  \/ alast.op = "updateName" /\ alast.args.x.type = "AgentName"
  \/ alast.op = "updatePrompt" /\ alast.args.x.type = "AgentPrompt"
  \/ alast.op = "addFrameworkConfig" /\ alast.args.x.type = "FrameworkConfig"
  \/ alast.op = "removeFrameworkConfig"
  \/ alast.op = "changeStatus" /\ alast.args.x.type = "AgentStatus"

\* C13 (agents): createAgent with valid arguments builds an agent with
\* createdAt = updatedAt, and every accepted mutator call returns an agent with the
\* same createdAt and updatedAt >= createdAt.
C13_AgentTimestamps ==
  /\ ( /\ alast.op = "createAgent"
       /\ AgentNameNew(alast.args.name).ok
       /\ AgentPromptNew(alast.args.prompt).ok
       /\ MapFrameworkConfigs(alast.args.frameworkConfigs).ok ) =>
       /\ alast.res.ok
       /\ alast.res.val.createdAt = alast.res.val.updatedAt
  /\ C13_ValidMutation =>
       /\ alast.res.ok
       /\ alast.res.val.createdAt = alast.recv.createdAt
       /\ alast.res.val.updatedAt.t >= alast.res.val.createdAt.t

\* C13: timestamps of agents and payments: equal at creation, createdAt never
\* changes, updatedAt never precedes createdAt.
C13_Timestamps == C13_PaymentTimestamps /\ C13_AgentTimestamps

----------------------------------------------------------------------------
(* Properties of the agent use cases (specification SpecApp).              *)

\* the framework types a request's configs name
C14_RequestedTypes(plain) ==
  {ToUpperCase(plain[i].frameworkType.v) : i \in DOMAIN plain}

\* C14: after ConfigureAgentFrameworksUseCase.execute succeeds, the returned and
\* stored agent has exactly the frameworks of the request: every requested type is
\* present and every previously configured type that was not requested is absent.
C14_ConfigureSetsExactly ==
  (uc.name = "ConfigureAgentFrameworks" /\ uc.result.success) =>
    /\ TypesOf(uc.result.agent.frameworkConfigs)
         = C14_RequestedTypes(uc.request.frameworkConfigs.items)
    /\ findById(repo, uc.request.id) = uc.result.agent

\* the ids of the agents an execution of the named use case looks up
C15_LookedUp(name, request) ==
  CASE name \in {"UpdateAgent", "GetAgent", "DeleteAgent", "ConfigureAgentFrameworks",
                 "EvaluateAgentForGoal", "ProcessAgentPayment"}
         -> {IF name \in {"EvaluateAgentForGoal", "ProcessAgentPayment"}
               THEN request.agentId ELSE request.id}
    [] name \in {"CreateAgenticPlan", "CreatePayment"}
         -> IF Falsy(request.agentId) THEN {} ELSE {request.agentId}
    [] name = "CreateMultiAgentCoordination"
         -> IF request.agentIds.type = "array"
              THEN {request.agentIds.items[i] : i \in DOMAIN request.agentIds.items}
              ELSE {}
    [] OTHER -> {}

\* C15: every execution of a use case settles with a result object, never with a
\* raised error: the result has a boolean `success`; when success is false it has a
\* non-empty list `errors` of strings; and when an agent the execution looks up is
\* missing from the repository, success is false.
C15_UseCasesNeverReject ==
  [][uc'.name # "none" /\ uc' # uc =>
       /\ "success" \in DOMAIN uc'.result
       /\ uc'.result.success \in BOOLEAN
       /\ ~uc'.result.success =>
            /\ "errors" \in DOMAIN uc'.result
            /\ Len(uc'.result.errors) > 0
            /\ \A i \in DOMAIN uc'.result.errors : uc'.result.errors[i] \in STRING
       /\ (\E id \in C15_LookedUp(uc'.name, uc'.request) : findById(repo, id) = Null)
            => ~uc'.result.success]_vars

\* an UpdateAgentUseCase execution found the agent, the aggregate raised an error
\* while building the renamed agent, and the execution returned it in `errors`
C15_Witness ==
  /\ uc.name = "UpdateAgent"
  /\ adapter = "InMemoryAgentRepository"
  /\ findById(repo, uc.request.id) # Null
  /\ uc.request.name = Text(N_Ann)
  /\ ~uc.result.success
  /\ Len(uc.result.errors) = 1
  /\ uc.result.errors[1]
       = AgentNew(AgentIdObject, AgentNameNew(Text(N_Ann)).val,
                  AgentPromptNew(Text(P_Hi)).val, <<>>,
                  AgentStatusNew(Str("CONFIGURED")).val, DateTime(0), DateTime(0),
                  host).val.message

----------------------------------------------------------------------------
(* Properties of recommendFrameworks (specification SpecRecommend).        *)

C16_Keywords(framework) ==
  CASE framework = "A2A" -> {K_agent_to_agent, K_a2a, K_collaboration, K_multi_agent, K_communication}
    [] framework = "ADK" -> {K_development_kit, K_adk, K_workflow, K_orchestration, K_process}
    [] framework = "MCP" -> {K_model_context, K_mcp, K_external_tools, K_data_sources, K_tool_integration, K_resource_access}

\* the elements of a list
C16_Elements(list) == {list[i] : i \in DOMAIN list}

\* C16: recommendFrameworks classifies each framework independently: a framework is
\* returned iff the lower-cased prompt contains one of that framework's keywords,
\* whatever the other frameworks' keywords do, and the result holds between 0 and 3
\* distinct frameworks.
C16_IndependentClassifier ==
  svc.op = "recommendFrameworks" =>
    /\ \A f \in FrameworkTypes :
         f \in C16_Elements(svc.res)
           <=> \E k \in C16_Keywords(f) : Includes(ToLowerCase(input.text), k)
    /\ C16_Elements(svc.res) \subseteq FrameworkTypes
    /\ Len(svc.res) = Cardinality(C16_Elements(svc.res))
    /\ Len(svc.res) <= 3

\* a prompt with keywords of two frameworks got both of them
C16_Witness ==
  /\ svc.op = "recommendFrameworks"
  /\ input.text = JoinWords(<<K_workflow, W_MCP>>)
  /\ svc.res = <<"ADK", "MCP">>

\* C17: for the prompt "Build a multi-agent coordinator with external APIs and
\* workflow orchestration" recommendFrameworks returns all three frameworks.
C17_CoordinatorPromptGetsAll ==
  (svc.op = "recommendFrameworks" /\ input.text = P_Coordinator) =>
    C16_Elements(svc.res) = {"A2A", "ADK", "MCP"}

----------------------------------------------------------------------------
(* Properties of the planning functions (specification SpecPlan).          *)

\* the actions of a step list, in order
C18_Actions(steps) == [i \in DOMAIN steps |-> steps[i].action]

\* C18: createAgenticPlan picks exactly one step list by priority over the
\* lower-cased goal (research/analyze: 3 steps, else create/generate: 4 steps, else
\* coordinate/manage: 4 steps, else the 5-step default), and estimatedTime is 5 times
\* the number of steps: 15 for 'Analyze sales data to identify trends'.
C18_PriorityBranches ==
  svc.op = "createAgenticPlan" =>
    LET goalLower == ToLowerCase(input.text)
        Has(k) == Includes(goalLower, k)
        actions == C18_Actions(svc.res.steps)
    IN  /\ (Has(K_research) \/ Has(K_analyze)) =>
             actions = <<"gather_information", "analyze_data", "generate_report">>
        /\ (~(Has(K_research) \/ Has(K_analyze)) /\ (Has(K_create) \/ Has(K_generate))) =>
             actions = <<"collect_requirements", "create_draft", "review_draft",
                         "finalize_output">>
        /\ (~(Has(K_research) \/ Has(K_analyze)) /\ ~(Has(K_create) \/ Has(K_generate))
              /\ (Has(K_coordinate) \/ Has(K_manage))) =>
             actions = <<"identify_agents", "delegate_tasks", "monitor_progress",
                         "coordinate_completion">>
        /\ (~(Has(K_research) \/ Has(K_analyze)) /\ ~(Has(K_create) \/ Has(K_generate))
              /\ ~(Has(K_coordinate) \/ Has(K_manage))) =>
             actions = <<"understand_request", "plan_execution", "execute_plan",
                         "verify_result", "present_result">>
        /\ svc.res.estimatedTime = 5 * Len(svc.res.steps)
        /\ input.text = G_AnalyzeSales =>
             (Len(svc.res.steps) = 3 /\ svc.res.estimatedTime = 15)

\* a goal that matches the create and the research branch got the research list only
C18_Witness ==
  /\ svc.op = "createAgenticPlan"
  /\ input.text = JoinWords(<<K_create, K_analyze>>)
  /\ Len(svc.res.steps) = 3
  /\ svc.res.estimatedTime = 15

\* C19: in every plan of createAgenticPlan and of createPaymentProcessingPlan
\* (PENDING: 6 steps, AUTHORIZED: 3 steps) the step ids are 1..n in list order and
\* every dependency of a step is an id strictly smaller than the step's own.
C19_StepsFormDag ==
  svc.op \in {"createAgenticPlan", "createPaymentProcessingPlan"} =>
    /\ \A i \in DOMAIN svc.res.steps :
         /\ svc.res.steps[i].id = i
         /\ \A j \in DOMAIN svc.res.steps[i].dependencies :
              /\ svc.res.steps[i].dependencies[j] >= 1
              /\ svc.res.steps[i].dependencies[j] < svc.res.steps[i].id
    /\ svc.op = "createPaymentProcessingPlan" =>
         /\ svc.payment.status.value = "PENDING" => Len(svc.res.steps) = 6
         /\ svc.payment.status.value = "AUTHORIZED" => Len(svc.res.steps) = 3

\* the processing plan of a PENDING payment, with its dependent last step
C19_Witness ==
  /\ svc.op = "createPaymentProcessingPlan"
  /\ svc.payment.status.value = "PENDING"
  /\ Len(svc.res.steps) = 6
  /\ svc.res.steps[6].dependencies = <<5>>

\* the goal keywords of the topic a tool belongs to
C20_TopicKeywords(tool) ==
  CASE tool \in {T_data_processor, T_database_connector, T_visualization} ->
         {K_data, K_analyze, K_research}
    [] tool \in {T_document_parser, T_content_generator, T_file_handler} ->
         {K_document, K_text, K_content}
    [] tool \in {T_web_client, T_api_connector} -> {K_web, K_api, K_internet}
    [] tool \in {T_email_sender, T_notification_service} -> {K_email, K_message, K_notify}
    [] OTHER -> {}

\* C20: every required tool of a plan is one of the caller's availableTools, and it
\* is there because the goal contains a keyword of its topic, or it is
\* 'general_tools' and no topic tool was selected.
C20_ToolsNeverInvented ==
  svc.op = "createAgenticPlan" =>
    \A i \in DOMAIN svc.res.requiredTools :
      LET tool == svc.res.requiredTools[i] IN
      /\ ArrayIncludes(input.tools, tool)
      /\ \/ \E k \in C20_TopicKeywords(tool) : Includes(ToLowerCase(input.text), k)
         \/ tool = T_general_tools /\ svc.res.requiredTools = <<T_general_tools>>

\* a data goal selected the data tools on offer and nothing else
C20_Witness ==
  /\ svc.op = "createAgenticPlan"
  /\ input.text = K_data
  /\ input.tools = <<T_visualization, T_data_processor, T_web_client, T_general_tools>>
  /\ svc.res.requiredTools = <<T_data_processor, T_visualization>>

\* C21: the successCriteria of a plan has exactly 3 items and follows the branch that
\* chose the steps: the research/analyze branch gets the analysis criteria, the
\* create/generate branch the creation criteria, the default branch the default ones.
C21_CriteriaFollowSteps ==
  svc.op = "createAgenticPlan" =>
    LET actions == C18_Actions(svc.res.steps) IN
    /\ Len(svc.res.successCriteria) = 3
    /\ actions = C18_Actions(ResearchSteps) =>
         svc.res.successCriteria[1] = "Analysis is comprehensive and accurate"
    /\ actions = C18_Actions(CreateSteps) =>
         svc.res.successCriteria[1] = "Output meets the specified requirements"
    /\ actions = C18_Actions(DefaultSteps) =>
         svc.res.successCriteria[1] = "Goal is successfully achieved"

----------------------------------------------------------------------------
(* Properties of evaluateAgentForGoal (specification SpecEvaluate).        *)

\* C22: the score of evaluateAgentForGoal is 25 times the number of met buckets among
\* A2A fit (goal mentions communication, coordinate or multi-agent and the agent has
\* A2A), ADK fit (workflow, process or orchestrate and ADK), MCP fit (data, tool or
\* access and MCP) and prompt relevance; so it is one of 0, 25, 50, 75, 100.
C22_ScoreCountsBuckets ==
  svc.op = "evaluateAgentForGoal" =>
    LET goalLower == ToLowerCase(input.text)
        promptLower == ToLowerCase(svc.agent.prompt.value)
        Has(k) == Includes(goalLower, k)
        types == TypesOf(svc.agent.frameworkConfigs)
        One(met) == IF met THEN 1 ELSE 0
        a2a == (Has(K_communication) \/ Has(K_coordinate) \/ Has(K_multi_agent))
               /\ "A2A" \in types
        adk == (Has(K_workflow) \/ Has(K_process) \/ Has(K_orchestrate))
               /\ "ADK" \in types
        mcp == (Has(K_data) \/ Has(K_tool) \/ Has(K_access)) /\ "MCP" \in types
        relevant == \/ Includes(promptLower, Substring0(goalLower, 20))
                    \/ Has(FirstWord(Substring0(promptLower, 20)))
    IN  /\ svc.res.score = 25 * (One(a2a) + One(adk) + One(mcp) + One(relevant))
        /\ svc.res.score \in {0, 25, 50, 75, 100}

\* an agent with A2A and MCP but no ADK was evaluated for 'coordinate data' and
\* scored the two framework buckets only
C22_Witness ==
  /\ svc.op = "evaluateAgentForGoal"
  /\ input.text = JoinWords(<<K_coordinate, K_data>>)
  /\ svc.agent = EvaluatedAgent(P_TestAgent,
                                <<Cfg("A2A", 1, Undefined), Cfg("MCP", 1, Undefined)>>)
  /\ svc.res.score = 50

\* C23: every bucket of evaluateAgentForGoal that is not met appends exactly one
\* recommendation and a met bucket none, so score + 25 x the number of
\* recommendations = 100; an agent with only ADK evaluated for 'Perform data
\* analysis' scores below 100 and is recommended the MCP framework.
C23_RecommendationPerUnmetBucket ==
  svc.op = "evaluateAgentForGoal" =>
    /\ svc.res.score + 25 * Len(svc.res.recommendations) = 100
    /\ (input.text = G_PerformDataAnalysis
        /\ TypesOf(svc.agent.frameworkConfigs) = {"ADK"}) =>
         /\ svc.res.score < 100
         /\ \E i \in DOMAIN svc.res.recommendations :
              svc.res.recommendations[i]
                = "Consider adding MCP framework for external resource access"

----------------------------------------------------------------------------
(* Properties of the FrameworkConfigurationAdapter (specification SpecAdapter). *)

\* the error messages of the constraints of the framework's schema that the
\* configuration violates
C24_Violated(frameworkType, config) ==
  LET In(key, names) == Get(config, key) \in {Str(n) : n \in names}
      Positive(x) == x.type = "number" /\ x.v > 0
  IN
  CASE frameworkType = "A2A" ->
         {m \in {"A2A configuration requires \"name\" property",
                 "A2A discovery must be one of: multicast, registry, static",
                 "A2A port must be a number between 1 and 65535",
                 "A2A security must be one of: tls, mutual, none"} :
            \/ m = "A2A configuration requires \"name\" property"
                 /\ Get(config, "name") \in {Undefined, Null, Str("")}
            \/ m = "A2A discovery must be one of: multicast, registry, static"
                 /\ ~In("discovery", {"multicast", "registry", "static"})
            \/ m = "A2A port must be a number between 1 and 65535"
                 /\ ~(Positive(Get(config, "port")) /\ Get(config, "port").v <= 65535)
            \/ m = "A2A security must be one of: tls, mutual, none"
                 /\ ~In("security", {"tls", "mutual", "none"})}
    [] frameworkType = "ADK" ->
         {m \in {"ADK workflow must be one of: sequential, parallel, conditional, event-driven",
                 "ADK environment must be one of: local, container, serverless, distributed",
                 "ADK retry must be one of: exponential, linear, immediate, none"} :
            \/ m = "ADK workflow must be one of: sequential, parallel, conditional, event-driven"
                 /\ ~In("workflow", {"sequential", "parallel", "conditional", "event-driven"})
            \/ m = "ADK environment must be one of: local, container, serverless, distributed"
                 /\ ~In("environment", {"local", "container", "serverless", "distributed"})
            \/ m = "ADK retry must be one of: exponential, linear, immediate, none"
                 /\ ~In("retry", {"exponential", "linear", "immediate", "none"})}
    [] frameworkType = "MCP" ->
         {m \in {"MCP server must be one of: stdio, websocket, http, grpc",
                 "MCP context_window must be a positive number"} :
            \/ m = "MCP server must be one of: stdio, websocket, http, grpc"
                 /\ ~In("server", {"stdio", "websocket", "http", "grpc"})
            \/ m = "MCP context_window must be a positive number"
                 /\ ~Positive(Get(config, "context_window"))}

\* C24: on an object config of a valid framework type, validateConfiguration reports
\* the error of every violated constraint of the schema; when a constraint is
\* violated the result is success:false without a config, from applyConfiguration
\* too; validating the same config twice gives the same result.
C24_AllViolationsReported ==
  (/\ svc.op \in {"validateConfiguration", "applyConfiguration"}
   /\ IsString(input.frameworkType)
   /\ ToUpperCase(input.frameworkType.v) \in FrameworkTypes
   /\ input.config.type = "object") =>
    LET violated == C24_Violated(ToUpperCase(input.frameworkType.v), input.config) IN
    /\ violated # {} =>
         /\ ~svc.res.success
         /\ "config" \notin DOMAIN svc.res
         /\ \A m \in violated : \E i \in DOMAIN svc.res.errors : svc.res.errors[i] = m
    /\ svc.op = "validateConfiguration" => svc.again = svc.res

\* C25: for a template with a prompt and a list of valid frameworks,
\* createAgentFromTemplate returns an agent with status CONFIGURED that has every
\* framework of the template, each with a config that validateConfiguration accepts.
C25_TemplateAgentConfigured ==
  ( /\ alast.op = "createAgentFromTemplate"
    /\ AgentPromptNew(alast.args.prompt).ok
    /\ alast.args.frameworks.type = "array"
    /\ \A i \in DOMAIN alast.args.frameworks.items :
         alast.args.frameworks.items[i].v \in FrameworkTypes ) =>
    /\ alast.res.ok
    /\ alast.res.val.status.value = "CONFIGURED"
    /\ \A i \in DOMAIN alast.args.frameworks.items :
         LET t == alast.args.frameworks.items[i].v IN
         /\ hasFramework(alast.res.val, t)
         /\ validateConfiguration(Str(t),
                                  getFrameworkConfig(alast.res.val, t).configData).success

\* the tools an agent declares in its MCP and ADK configs
C26_DeclaredTools(a) ==
  UNION { {c.configData.tools.items[j] : j \in DOMAIN c.configData.tools.items} :
          c \in {a.frameworkConfigs[i] : i \in
                   {k \in DOMAIN a.frameworkConfigs :
                      /\ a.frameworkConfigs[k].frameworkType \in {"MCP", "ADK"}
                      /\ a.frameworkConfigs[k].configData.tools.type = "array"}} }

\* ADK before A2A before MCP, ADK when the agent holds none of them
C26_Priority(a) ==
  LET Has(f) == \E i \in DOMAIN a.frameworkConfigs : a.frameworkConfigs[i].frameworkType = f IN
  IF Has("ADK") THEN "ADK" ELSE IF Has("A2A") THEN "A2A" ELSE IF Has("MCP") THEN "MCP" ELSE "ADK"

\* CreateAgenticPlanUseCase ran against the in-memory repository with a goal and
\* an agentId
C26_PlannedForAgent ==
  /\ uc.name = "CreateAgenticPlan"
  /\ adapter = "InMemoryAgentRepository"
  /\ IsString(uc.request.goal) /\ ~Falsy(uc.request.goal)
  /\ ~Falsy(uc.request.agentId)

\* the elements of the plan's requiredTools
C26_Required == {uc.result.plan.requiredTools[i] : i \in DOMAIN uc.result.plan.requiredTools}

\* C26 as stated: a plan made for a stored agent has the framework type ADK, else
\* A2A, else MCP, else ADK by what the agent holds, and every one of its
\* requiredTools is a tool the agent declares in an MCP or ADK config; an agentId
\* that is not stored gives success:false with 'Agent not found' and no plan.
C26_PlanFollowsAgent ==
  C26_PlannedForAgent =>
    LET a == findById(repo, uc.request.agentId) IN
    IF a = Null
      THEN uc.result = Fail(<<"Agent not found">>)
      ELSE /\ uc.result.success
           /\ uc.result.plan.frameworkType = C26_Priority(a)
           /\ C26_Required \subseteq C26_DeclaredTools(a)

\* C26 amended: as C26, but an agent that declares no tool is planned with the one
\* tool 'general_tools'; requiredTools holds only declared tools when the agent
\* declares any, and is ['general_tools'] when it declares none.
C26_PlanFollowsAgentOrGeneralTools ==
  C26_PlannedForAgent =>
    LET a == findById(repo, uc.request.agentId) IN
    IF a = Null
      THEN uc.result = Fail(<<"Agent not found">>)
      ELSE /\ uc.result.success
           /\ uc.result.plan.frameworkType = C26_Priority(a)
           /\ IF C26_DeclaredTools(a) = {}
                THEN uc.result.plan.requiredTools = <<T_general_tools>>
                ELSE C26_Required \subseteq C26_DeclaredTools(a)

\* a plan for a stored agent that holds MCP before ADK and declares tools
C26_Witness ==
  /\ C26_PlannedForAgent
  /\ findById(repo, uc.request.agentId) # Null
  /\ uc.result.success
  /\ uc.result.plan.frameworkType = "ADK"
  /\ C26_DeclaredTools(findById(repo, uc.request.agentId)) # {}
  /\ findById(repo, uc.request.agentId).frameworkConfigs[1].frameworkType = "MCP"

\* C27 as stated: when two update or configure executions on one stored agent
\* interleave so that both have read the agent before either saves, both return
\* success:true and the repository then holds the agent of the later save alone.
C27_LaterSaveWins ==
  \A e \in Executions :
    (/\ uc[e].pc = "settled" /\ uc[Other(e)].pc = "settled"
     /\ uc[e].raced
     /\ Len(uc[e].existingAgent.val.frameworkConfigs) > 0)
    => /\ uc[e].result.success
       /\ uc[Other(e)].result.success
       /\ findById(repo, uc[e].request.id) = uc[Other(e)].result.agent


\* the agent use cases that write to the repository
C28_Writers == {"CreateAgent", "UpdateAgent", "ConfigureAgentFrameworks", "DeleteAgent"}

\* C28: an execution of the create, update, configure or delete use case that
\* returns success:false leaves the repository as it was; after a successful
\* create or update findById(id) returns the agent of the result, and after a
\* successful delete findById(id) returns null.
C28_WritesOnlyOnSuccess ==
  [][uc'.name \in C28_Writers =>
       IF ~uc'.result.success THEN repo' = repo
       ELSE IF uc'.name = "DeleteAgent"
         THEN findById(repo', uc'.request.id) = Null
       ELSE IF uc'.name \in {"CreateAgent", "UpdateAgent"}
         THEN findById(repo', Str(uc'.result.agent.id.value)) = uc'.result.agent
       ELSE TRUE]_vars

\* a stored agent was deleted
C28_Witness ==
  /\ uc.name = "DeleteAgent"
  /\ uc.result.success
  /\ uc.request.id = Str("a1")
  /\ repo["a1"] = Null

\* a payment use case called processPayment and the call resolved
C29_Processed ==
  /\ uc.name \in {"CreatePayment", "ProcessAgentPayment"}
  /\ uc.calls # <<>>
  /\ uc.processor # "PaymentProcessorPort"

\* C29: whenever a payment use case has called processPayment and the call
\* resolved, it returns success:true with the payment it created, still PENDING,
\* whatever the processor answered; the answer is the result's processingResult.
C29_ProcessorNeverMovesPayment ==
  C29_Processed =>
    /\ uc.result.success
    /\ uc.result.payment = uc.created.val
    /\ uc.result.payment.status.value = "PENDING"
    /\ uc.calls = <<uc.created.val>>
    /\ uc.result.processingResult \in
         {[success |-> TRUE, error |-> ""],
          [success |-> FALSE, error |-> "Payment declined"]}
    /\ (uc.processor = "DecliningPaymentProcessor" => ~uc.result.processingResult.success)

\* the processor answered { success: false, error } and the use case reported success
C29_Witness ==
  /\ C29_Processed
  /\ uc.result.success
  /\ ~uc.result.processingResult.success
  /\ uc.result.payment.status.value = "PENDING"

\* status s stands in the history before position j
C30_Earlier(s, j) == \E i \in 1..(j - 1) : hist[i] = s

\* C30: a payment built by createPayment that is CAPTURED was AUTHORIZED before,
\* one that is REFUNDED was CAPTURED before and AUTHORIZED before that, one that
\* was ever CANCELLED was never AUTHORIZED, and one that was CAPTURED or REFUNDED
\* never becomes FAILED afterwards.
C30_HistoryOrder ==
  origin = "createPayment" =>
    \A j \in DOMAIN hist :
      /\ hist[j] = "CAPTURED" => C30_Earlier("AUTHORIZED", j)
      /\ hist[j] = "REFUNDED" =>
           \E k \in 1..(j - 1) : hist[k] = "CAPTURED" /\ C30_Earlier("AUTHORIZED", k)
      /\ hist[j] = "CANCELLED" => \A i \in DOMAIN hist : hist[i] # "AUTHORIZED"
      /\ hist[j] = "FAILED" => ~C30_Earlier("CAPTURED", j) /\ ~C30_Earlier("REFUNDED", j)

====
